---- MODULE Spec2Model ----
(***************************************************************************)
(* MarginFiClient (src/marginfi_lending.py): its construction, the session *)
(* caches, the three write operations create_marginfi_account, lend_sol    *)
(* and withdraw_from_pool, the entity resolvers and read operations, the   *)
(* wallet status, the lending and withdrawal flows, and the byte-level     *)
(* instruction payloads the write operations build.                        *)
(*                                                                         *)
(* Modelling conventions                                                   *)
(*   - A Pubkey is a tuple of strings; None is the empty tuple.  A Keypair *)
(*     is identified with its public key.                                  *)
(*   - A Python int is a signed decimal numeral (TLC's integers are 32 bit *)
(*     wide, lamport amounts are not).                                     *)
(*   - A float amount of SOL is a decimal fixed-point numeral; binary      *)
(*     rounding of the float product amount * 1e9 is not modelled.         *)
(*   - Every RPC answer is chosen by the environment at the call.          *)
(*   - A fallible expression yields Ok(value), or Raised when it raises.   *)
(***************************************************************************)
EXTENDS Integers, Sequences, FiniteSets, TLC

\* ---------------------------------------------------------------------
\* Bounds of the model.

\* Keypair() calls in one session.
MaxKeys == 2

\* Accounts in one get_program_accounts answer.
MaxScan == 2

\* ---------------------------------------------------------------------
\* Program constants.

None == <<>>

MARGINFI_PROGRAM_ID == <<"MFv2hWf31Z9kbCa1snEPYctwafyhdvnV7FZnsebVacA">>
SOL_MINT_PUBKEY == <<"So11111111111111111111111111111111111111112">>
TOKEN_PROGRAM_ID == <<"TokenkegQfeZyiNwAJbNbGKPFXCWuBvf9Ss623VQ5DA">>
SYSTEM_PROGRAM_ID == <<"11111111111111111111111111111111">>

\* Program and sysvar addresses the instruction helpers of solders and
\* spl.token use.
COMPUTE_BUDGET_ID == <<"ComputeBudget111111111111111111111111111111">>
SYSVAR_RENT_PUBKEY == <<"SysvarRent111111111111111111111111111111111">>

\* spl.token.constants.ACCOUNT_LEN
ACCOUNT_LEN == 165

\* int(PRIORITY_FEE_SOL * 1e9) with PRIORITY_FEE_SOL = 0.00001
PRIORITY_FEE_MICRO_LAMPORTS == 10000

CREATE_ACCOUNT_UNIT_LIMIT == 300000
LEND_UNIT_LIMIT == 400000
WITHDRAW_UNIT_LIMIT == 400000

known_groups ==
    << <<"4qp6Fx6tnZkY5Wropq9wUYgtFxXKwE6viZxFHg3rdAG8">>,
       <<"3Z9vJPxUjHj47vRq8TBKEbN1fGWNYKWaHpxFNdZR4Jm2">>,
       <<"4VcJMDnbYKRCeJ6zF8BKr2k6c5iHBBmjLWdJXnyxVHGY">> >>

sol_bank_str == <<"CCKtUs6Cgwo4aaQUmBPmyoApH2gUDErxNZCAntD6LYGh">>

existing_marginfi_account == <<"2cZh5HsT3pkKWbhGjhHi56u2oKFSjkDjsoRqt18bxu8W">>

\* self.keypair.pubkey(), the wallet loaded from WALLET_KEY.
WalletKey == <<"WALLET_KEY">>

\* The n-th keypair Keypair() generates in the session.
NewKeypair(n) == <<"Keypair", ToString(n)>>

\* ---------------------------------------------------------------------
\* Exceptions: a fallible expression yields Ok(value) or Raised.

Ok(v) == [raised |-> FALSE, value |-> v]

Raised == [raised |-> TRUE, value |-> <<>>]

\* ---------------------------------------------------------------------
\* Python ints: a sign and the decimal digits, most significant first,
\* without leading zeros (zero is the single digit 0).

RECURSIVE Strip(_)
Strip(d) ==
    IF Len(d) > 1 /\ d[1] = 0 THEN Strip(Tail(d)) ELSE d

RECURSIVE NatDigits(_)
NatDigits(n) ==
    IF n < 10 THEN <<n>> ELSE Append(NatDigits(n \div 10), n % 10)

PyInt(n) == [neg |-> FALSE, digits |-> NatDigits(n)]

Zeros(n) == [i \in 1..n |-> 0]

\* d1 < d2 for two stripped digit strings.
RECURSIVE DigitsLess(_, _)
DigitsLess(d1, d2) ==
    IF Len(d1) # Len(d2) THEN Len(d1) < Len(d2)
    ELSE IF d1 = <<>> THEN FALSE
    ELSE IF d1[1] # d2[1] THEN d1[1] < d2[1]
    ELSE DigitsLess(Tail(d1), Tail(d2))

\* Digit-wise sum of two strings of equal length, least significant
\* digit last, with the carry out as leading digit.
RECURSIVE AddAligned(_, _, _, _)
AddAligned(d1, d2, carry, acc) ==
    IF d1 = <<>> THEN <<carry>> \o acc
    ELSE LET n == Len(d1)
             t == d1[n] + d2[n] + carry
         IN  AddAligned(SubSeq(d1, 1, n - 1), SubSeq(d2, 1, n - 1),
                        t \div 10, <<t % 10>> \o acc)

\* Digit-wise difference d1 - d2 of two strings of equal length, d1 >= d2.
RECURSIVE SubAligned(_, _, _, _)
SubAligned(d1, d2, borrow, acc) ==
    IF d1 = <<>> THEN acc
    ELSE LET n == Len(d1)
             t == d1[n] - d2[n] - borrow
         IN  SubAligned(SubSeq(d1, 1, n - 1), SubSeq(d2, 1, n - 1),
                        IF t < 0 THEN 1 ELSE 0,
                        <<IF t < 0 THEN t + 10 ELSE t>> \o acc)

PadTo(d, n) == Zeros(n - Len(d)) \o d

MaxOf(a, b) == IF a < b THEN b ELSE a

DigitsAdd(d1, d2) ==
    LET n == MaxOf(Len(d1), Len(d2))
    IN  Strip(AddAligned(PadTo(d1, n), PadTo(d2, n), 0, <<>>))

DigitsSub(d1, d2) ==
    LET n == MaxOf(Len(d1), Len(d2))
    IN  Strip(SubAligned(PadTo(d1, n), PadTo(d2, n), 0, <<>>))

\* a + b on Python ints.
IntAdd(a, b) ==
    IF a.neg = b.neg
    THEN [neg |-> a.neg, digits |-> DigitsAdd(a.digits, b.digits)]
    ELSE IF a.digits = b.digits THEN PyInt(0)
    ELSE IF DigitsLess(a.digits, b.digits)
    THEN [neg |-> b.neg, digits |-> DigitsSub(b.digits, a.digits)]
    ELSE [neg |-> a.neg, digits |-> DigitsSub(a.digits, b.digits)]

\* Long division of a digit string by 256: <<quotient, remainder>>.
RECURSIVE DivMod256(_, _, _)
DivMod256(d, rem, quot) ==
    IF d = <<>> THEN <<Strip(quot), rem>>
    ELSE LET cur == rem * 10 + d[1]
         IN  DivMod256(Tail(d), cur % 256, Append(quot, cur \div 256))

\* The n little-endian bytes of the magnitude, and what is left over.
RECURSIVE LittleEndian(_, _, _)
LittleEndian(d, n, acc) ==
    IF n = 0 THEN <<acc, d>>
    ELSE LET qr == DivMod256(d, 0, <<>>)
         IN  LittleEndian(qr[1], n - 1, Append(acc, qr[2]))

\* The bytes most significant first.
to_bytes_BigEndian(x, length) ==
    LET le == LittleEndian(x.digits, length, <<>>)
    IN  IF x.neg \/ le[2] # <<0>> THEN Raised
        ELSE Ok([i \in 1..length |-> le[1][length + 1 - i]])

\* The low bytes of an int that does not fit, in place of the error.
to_bytes_Wrapping(x, length) ==
    LET le == LittleEndian(x.digits, length, <<>>)
    IN  IF x.neg THEN Raised ELSE Ok(le[1])

\* int.to_bytes(length, 'little'): OverflowError on a negative int and on
\* an int that does not fit.
to_bytes(x, length) ==
    LET le == LittleEndian(x.digits, length, <<>>)
    IN  IF x.neg \/ le[2] # <<0>> THEN Raised ELSE Ok(le[1])

\* The little-endian bytes of a small unsigned number.
RECURSIVE SmallLE(_, _)
SmallLE(n, length) ==
    IF length = 0 THEN <<>> ELSE <<n % 256>> \o SmallLE(n \div 256, length - 1)

\* ---------------------------------------------------------------------
\* Amounts of SOL: the float is the decimal numeral
\* (-1)^neg * digits * 10^(-scale).

\* int(amount * 1e9): the product, truncated toward zero.
ToLamports(amount) ==
    LET shifted ==
            IF amount.scale <= 9
            THEN amount.digits \o Zeros(9 - amount.scale)
            ELSE IF Len(amount.digits) > amount.scale - 9
            THEN SubSeq(amount.digits, 1, Len(amount.digits) - (amount.scale - 9))
            ELSE <<0>>
        digits == Strip(shifted)
    IN  [neg |-> amount.neg /\ digits # <<0>>, digits |-> digits]

\* ---------------------------------------------------------------------
\* Float arithmetic on the decimal numerals.

\* The digits of a numeral at a scale not below its own.
DecDigitsAt(a, scale) == Strip(a.digits \o Zeros(scale - a.scale))

DecIsZero(a) == Strip(a.digits) = <<0>>

DecNegative(a) == a.neg /\ ~DecIsZero(a)

\* a < b
DecLess(a, b) ==
    LET scale == MaxOf(a.scale, b.scale)
        da == DecDigitsAt(a, scale)
        db == DecDigitsAt(b, scale)
    IN  IF DecNegative(a) # DecNegative(b) THEN DecNegative(a)
        ELSE IF DecNegative(a) THEN DigitsLess(db, da)
        ELSE DigitsLess(da, db)

\* d + d + ... + d, k times
RECURSIVE DigitsTimes(_, _)
DigitsTimes(d, k) ==
    IF k = 0 THEN <<0>> ELSE DigitsAdd(d, DigitsTimes(d, k - 1))

RECURSIVE DigitsMul(_, _, _)
DigitsMul(d1, d2, acc) ==
    IF d2 = <<>> THEN Strip(acc)
    ELSE DigitsMul(d1, Tail(d2),
                   DigitsAdd(Strip(acc \o <<0>>), DigitsTimes(d1, d2[1])))

\* a * b
DecMul(a, b) ==
    [neg |-> a.neg # b.neg,
     digits |-> DigitsMul(Strip(a.digits), Strip(b.digits), <<0>>),
     scale |-> a.scale + b.scale]

\* a + b
DecAdd(a, b) ==
    LET scale == MaxOf(a.scale, b.scale)
        total == IntAdd([neg |-> a.neg, digits |-> DecDigitsAt(a, scale)],
                        [neg |-> b.neg, digits |-> DecDigitsAt(b, scale)])
    IN  [neg |-> total.neg, digits |-> total.digits, scale |-> scale]

\* a == b
DecEq(a, b) == ~DecLess(a, b) /\ ~DecLess(b, a)

\* A whole number as a float.
Dec(n) == [neg |-> FALSE, digits |-> NatDigits(n), scale |-> 0]

\* lamports / 1e9
FromLamports(lamports) ==
    [neg |-> lamports.neg, digits |-> lamports.digits, scale |-> 9]

\* ---------------------------------------------------------------------
\* Anchor discriminators.

\* hashlib.sha256(preimage).digest(), tabulated on the preimages of the
\* protocol's method names.
Sha256Digest(preimage) ==
    CASE preimage = "global:marginfi_account_initialize" ->
           <<43, 78, 61, 255, 148, 52, 249, 154, 178, 137, 7, 221, 204, 242, 209, 150,
             71, 93, 10, 236, 35, 221, 76, 235, 3, 37, 221, 160, 184, 182, 6, 202>>
      [] preimage = "global:lending_account_deposit" ->
           <<171, 94, 235, 103, 82, 64, 212, 140, 169, 85, 216, 83, 145, 155, 95, 247,
             255, 252, 22, 61, 214, 7, 17, 84, 160, 186, 87, 158, 21, 179, 210, 236>>
      [] preimage = "global:lending_account_withdraw" ->
           <<36, 72, 74, 19, 210, 210, 192, 192, 8, 38, 72, 56, 73, 184, 8, 159,
             245, 147, 89, 38, 190, 238, 61, 5, 100, 149, 83, 72, 23, 8, 29, 224>>

calculate_anchor_discriminator(instruction_name) ==
    LET preimage == "global:" \o instruction_name
        hash_result == Sha256Digest(preimage)
    IN  SubSeq(hash_result, 1, 8)

\* The literal of withdraw_from_pool.
withdraw_discriminator == <<183, 18, 70, 156, 148, 109, 161, 34>>

\* ---------------------------------------------------------------------
\* Addresses.

\* bytes(pubkey): the base58 decoding of the address.
PubkeyBytes(pubkey) ==
    CASE pubkey = TOKEN_PROGRAM_ID ->
           <<6, 221, 246, 225, 215, 101, 161, 147, 217, 203, 225, 70, 206, 235, 121, 172,
             28, 180, 133, 237, 95, 91, 55, 145, 58, 140, 245, 133, 126, 255, 0, 169>>
      [] pubkey = SYSTEM_PROGRAM_ID -> Zeros(32)

RECURSIVE Flatten(_)
Flatten(seqs) ==
    IF seqs = <<>> THEN <<>> ELSE seqs[1] \o Flatten(Tail(seqs))

\* Pubkey.find_program_address(seeds, program_id)[0]: the derived address
\* as the term over its seeds and program (both callers drop the bump).
find_program_address(seeds, program_id) ==
    <<"pda">> \o Flatten(seeds) \o program_id

\* ---------------------------------------------------------------------
\* Instructions.

\* AccountMeta(pubkey, is_signer, is_writable); a pubkey of None is a
\* TypeError.
AccountMeta(pubkey, is_signer, is_writable) ==
    IF pubkey = None THEN Raised
    ELSE Ok([pubkey |-> pubkey, is_signer |-> is_signer, is_writable |-> is_writable])

\* A list display of AccountMeta(...) calls, evaluated left to right.
AccountList(metas) ==
    IF \E i \in 1..Len(metas) : metas[i].raised THEN Raised
    ELSE Ok([i \in 1..Len(metas) |-> metas[i].value])

Instruction(program_id, data, accounts) ==
    [program_id |-> program_id, data |-> data, accounts |-> accounts]

\* An unsigned 64-bit argument of a solders call: OverflowError outside
\* 0..2^64-1.
U64(x) == to_bytes(x, 8)

\* solders.compute_budget.set_compute_unit_limit(units)
set_compute_unit_limit(units) ==
    Instruction(COMPUTE_BUDGET_ID, <<2>> \o SmallLE(units, 4), <<>>)

\* solders.compute_budget.set_compute_unit_price(micro_lamports)
set_compute_unit_price(micro_lamports) ==
    Instruction(COMPUTE_BUDGET_ID, <<3>> \o SmallLE(micro_lamports, 8), <<>>)

\* solders.system_program.create_account(CreateAccountParams(...))
create_account(from_pubkey, to_pubkey, lamports, space, owner) ==
    IF U64(lamports).raised THEN Raised
    ELSE Ok(Instruction(
            SYSTEM_PROGRAM_ID,
            SmallLE(0, 4) \o U64(lamports).value \o SmallLE(space, 8)
                \o PubkeyBytes(owner),
            << [pubkey |-> from_pubkey, is_signer |-> TRUE, is_writable |-> TRUE],
               [pubkey |-> to_pubkey, is_signer |-> TRUE, is_writable |-> TRUE] >>))

\* spl.token.instructions.initialize_account(InitializeAccountParams(...))
initialize_account(program_id, account, mint, owner) ==
    Instruction(
        program_id, <<1>>,
        << [pubkey |-> account, is_signer |-> FALSE, is_writable |-> TRUE],
           [pubkey |-> mint, is_signer |-> FALSE, is_writable |-> FALSE],
           [pubkey |-> owner, is_signer |-> FALSE, is_writable |-> FALSE],
           [pubkey |-> SYSVAR_RENT_PUBKEY, is_signer |-> FALSE, is_writable |-> FALSE] >>)

\* spl.token.instructions.close_account(CloseAccountParams(...))
close_account(account, dest, owner, program_id) ==
    Instruction(
        program_id, <<9>>,
        << [pubkey |-> account, is_signer |-> FALSE, is_writable |-> TRUE],
           [pubkey |-> dest, is_signer |-> FALSE, is_writable |-> TRUE],
           [pubkey |-> owner, is_signer |-> TRUE, is_writable |-> FALSE] >>)

\* Transaction.new_signed_with_payer(instructions, payer, signing_keypairs,
\* recent_blockhash): the signers the message requires are the payer and
\* every account an instruction marks as signer; signing raises unless the
\* keypairs given are exactly those.
RequiredSigners(instrs, payer) ==
    {payer} \cup
    {instrs[i].accounts[j].pubkey :
        <<i, j>> \in {ij \in (1..Len(instrs)) \X (1..7) :
                         /\ ij[2] <= Len(instrs[ij[1]].accounts)
                         /\ instrs[ij[1]].accounts[ij[2]].is_signer}}

Range(f) == {f[i] : i \in DOMAIN f}

new_signed_with_payer(instrs, payer, signing_keypairs, recent_blockhash) ==
    IF Range(signing_keypairs) = RequiredSigners(instrs, payer)
    THEN Ok([instructions |-> instrs, payer |-> payer,
             signers |-> signing_keypairs,
             recent_blockhash |-> recent_blockhash])
    ELSE Raised

NoTx ==
    [instructions |-> <<>>, payer |-> None, signers |-> <<>>,
     recent_blockhash |-> ""]

\* ---------------------------------------------------------------------
\* The RPC backend's answers.

\* get_account_info(address): the account exists and the lending program
\* owns it, it exists under another owner, it does not exist (value None),
\* or the call raises.
AccountAnswers == {"owned", "foreign", "absent", "error"}

\* get_program_accounts(program): the call raises, the value is None, or a
\* list of accounts with their data lengths.
ScanSizes == {10000, 10001, 14999, 15000}

\* The address of the i-th account of the answer.
ScanPubkey(i) == <<"ProgramAccount", ToString(i)>>

RECURSIVE SeqsUpTo(_, _)
SeqsUpTo(S, n) ==
    IF n = 0 THEN {<<>>}
    ELSE SeqsUpTo(S, n - 1) \cup
         {Append(q, x) : q \in {r \in SeqsUpTo(S, n - 1) : Len(r) = n - 1}, x \in S}

ScanAnswers ==
    {[kind |-> "error", accounts |-> <<>>], [kind |-> "none", accounts |-> <<>>]}
    \cup {[kind |-> "list",
           accounts |-> [i \in 1..Len(sizes) |->
                            [pubkey |-> ScanPubkey(i), size |-> sizes[i]]]] :
             sizes \in SeqsUpTo(ScanSizes, MaxScan)}

\* get_minimum_balance_for_rent_exemption(ACCOUNT_LEN): lamports, or -1
\* when the call raises.
RentAnswers == {-1, 2039280}

\* get_latest_blockhash(): a block reference, or "error" when the call
\* raises.
BlockhashAnswers == {"error", "blockhash"}

\* send_transaction(tx)
SendAnswers == {"accepted", "rejected"}

\* The amounts of SOL the operations are called with.
Amounts ==
    { [neg |-> FALSE, digits |-> <<2>>, scale |-> 2],
      [neg |-> FALSE, digits |-> <<0>>, scale |-> 0],
      [neg |-> FALSE, digits |-> <<5>>, scale |-> 10],
      [neg |-> TRUE, digits |-> <<5>>, scale |-> 9],
      [neg |-> TRUE, digits |-> <<1>>, scale |-> 0],
      [neg |-> FALSE, scale |-> 9,
       digits |-> <<7, 2, 6, 2, 3, 8, 5, 9, 7, 9, 0, 3, 8, 2, 8, 5, 6>>],
      [neg |-> FALSE, scale |-> 9,
       digits |-> <<1, 8, 4, 4, 6, 7, 4, 4, 0, 7, 3, 7, 0, 9, 5, 5, 1, 6, 1, 5>>],
      [neg |-> FALSE, scale |-> 9,
       digits |-> <<1, 8, 4, 4, 6, 7, 4, 4, 0, 7, 3, 7, 0, 9, 5, 5, 1, 6, 1, 6>>] }

\* The pool_id arguments of withdraw_from_pool.
PoolIds == {"", "CCKtUs6Cgwo4aaQUmBPmyoApH2gUDErxNZCAntD6LYGh"}

\* ---------------------------------------------------------------------
\* The session.

VARIABLES
    test_mode,              \* self.test_mode
    marginfi_group_key,     \* self.marginfi_group_key
    sol_bank_key,           \* self.sol_bank_key
    marginfi_account_key,   \* self.marginfi_account_key
    keys_generated,         \* Keypair() calls so far
    pc,                     \* "idle", or the step the running call is at
    op,                     \* the operation called last
    amount_lamports,        \* its amount_lamports
    pool_id,                \* its pool_id
    verified,               \* what lend_sol's look at the lending account saw
    ephemeral,              \* the keypair it generated
    rent_lamports,          \* the rent it was told
    built,                  \* the Instruction objects it constructed, in order
    signing_keypairs,       \* the keypairs it gave to new_signed_with_payer
    tx,                     \* the transaction it signed
    rpc_log,                \* the network requests it made, in order
    sent,                   \* the answers to its send_transaction calls
    result,                 \* its return value
    amount_sol,             \* its amount argument, in SOL
    flow,                   \* the flow that called it, "none" for a direct call
    wallet_status,          \* the wallet status returned or handed to the flow
    positions,              \* the positions handed to the flow
    env                     \* what the environment answered a read operation

vars ==
    <<test_mode, marginfi_group_key, sol_bank_key, marginfi_account_key,
      keys_generated, pc, op, amount_lamports, pool_id, verified, ephemeral,
      rent_lamports, built, signing_keypairs, tx, rpc_log, sent, result,
      amount_sol, flow, wallet_status, positions, env>>

\* What a step after the entry of a call leaves alone.
args ==
    <<test_mode, op, amount_lamports, pool_id, verified, amount_sol, flow,
      wallet_status, positions, env>>

\* No amount, no wallet status, no answer.
NoAmount == [neg |-> FALSE, digits |-> <<0>>, scale |-> 0]

NoStatus == [raised |-> FALSE, tokens |-> <<>>, total_value_usd |-> NoAmount]

NoEnv == [asked |-> "nothing"]

cache == <<marginfi_group_key, sol_bank_key, marginfi_account_key>>

Running == <<"running">>
True == <<"True">>
False == <<"False">>

RpcCall(method, pubkey) == <<method>> \o pubkey

\* ---------------------------------------------------------------------
\* The resolvers.  Each yields the new cache field (key), the value
\* returned (ret) and the backend calls made (log).

\* A loop over known_groups that a failing lookup ends.
RECURSIVE TryKnownGroups_ErrorEnds(_, _, _)
TryKnownGroups_ErrorEnds(i, answers, log) ==
    IF i > Len(known_groups) THEN [found |-> None, log |-> log]
    ELSE LET queried == Append(log, RpcCall("get_account_info", known_groups[i]))
         IN  IF answers[i] = "owned"
             THEN [found |-> known_groups[i], log |-> queried]
             ELSE IF answers[i] = "error"
             THEN [found |-> None, log |-> queried]
             ELSE TryKnownGroups_ErrorEnds(i + 1, answers, queried)

\* The loop over known_groups, from candidate i on.
RECURSIVE TryKnownGroups(_, _, _)
TryKnownGroups(i, answers, log) ==
    IF i > Len(known_groups) THEN [found |-> None, log |-> log]
    ELSE LET queried == Append(log, RpcCall("get_account_info", known_groups[i]))
         IN  IF answers[i] = "owned"
             THEN [found |-> known_groups[i], log |-> queried]
             ELSE TryKnownGroups(i + 1, answers, queried)

GroupSized(data_size) == 10000 < data_size /\ data_size < 15000

\* A scan that looks at the first account only.
ScanForGroup_FirstOnly(accounts, i) ==
    IF i > Len(accounts) THEN None
    ELSE IF GroupSized(accounts[i].size) THEN accounts[i].pubkey
    ELSE None

\* The loop over the accounts of the program, from account i on.
RECURSIVE ScanForGroup(_, _)
ScanForGroup(accounts, i) ==
    IF i > Len(accounts) THEN None
    ELSE IF GroupSized(accounts[i].size) THEN accounts[i].pubkey
    ELSE ScanForGroup(accounts, i + 1)

find_marginfi_group(key, answers, scan) ==
    LET known == TryKnownGroups(1, answers, <<>>)
        scanned == Append(known.log,
                          RpcCall("get_program_accounts", MARGINFI_PROGRAM_ID))
        hit == IF scan.kind = "list" THEN ScanForGroup(scan.accounts, 1) ELSE None
    IN  IF known.found # None
        THEN [key |-> known.found, ret |-> known.found, log |-> known.log]
        ELSE IF hit # None
        THEN [key |-> hit, ret |-> hit, log |-> scanned]
        ELSE [key |-> key, ret |-> None, log |-> scanned]

\* A lookup that takes any existing account for the bank.
find_sol_bank_AnyOwner(key, answer) ==
    LET log == <<RpcCall("get_account_info", sol_bank_str)>>
    IN  IF answer \in {"owned", "foreign"}
        THEN [key |-> sol_bank_str, ret |-> sol_bank_str, log |-> log]
        ELSE [key |-> key, ret |-> None, log |-> log]

find_sol_bank(key, answer) ==
    LET log == <<RpcCall("get_account_info", sol_bank_str)>>
    IN  IF answer = "owned"
        THEN [key |-> sol_bank_str, ret |-> sol_bank_str, log |-> log]
        ELSE [key |-> key, ret |-> None, log |-> log]

find_marginfi_account(key, answer) ==
    LET log == <<RpcCall("get_account_info", existing_marginfi_account)>>
    IN  IF answer = "owned"
        THEN [key |-> existing_marginfi_account,
              ret |-> existing_marginfi_account, log |-> log]
        ELSE [key |-> key, ret |-> None, log |-> log]

\* The answers the backend is asked for: none for a field that is already
\* resolved, and no enumeration once a known group verified.
NotAsked == "absent"

GroupAnswersAsked(key) ==
    IF key = None THEN [1..Len(known_groups) -> AccountAnswers]
    ELSE {[i \in 1..Len(known_groups) |-> NotAsked]}

\* The enumeration is asked for when no candidate verified.  Every answer
\* to it is tried where the candidates failed alike; where they failed in
\* different ways it raises or answers None.
ScanAnswersAsked(key, answers) ==
    IF key = None /\ \A i \in 1..Len(known_groups) : answers[i] # "owned"
    THEN IF \A i \in 1..Len(known_groups) : answers[i] = answers[1]
         THEN ScanAnswers
         ELSE {[kind |-> "error", accounts |-> <<>>],
               [kind |-> "none", accounts |-> <<>>]}
    ELSE {[kind |-> "none", accounts |-> <<>>]}

AccountAnswersAsked(key) ==
    IF key = None THEN AccountAnswers ELSE {NotAsked}

\* `if not self.<field>: self.find_...()`: the resolver runs only on an
\* unresolved field.
EnsureGroup(key, answers, scan) ==
    IF key = None THEN find_marginfi_group(key, answers, scan)
    ELSE [key |-> key, ret |-> key, log |-> <<>>]

EnsureBank(key, answer) ==
    IF key = None THEN find_sol_bank(key, answer)
    ELSE [key |-> key, ret |-> key, log |-> <<>>]

EnsureAccount(key, answer) ==
    IF key = None THEN find_marginfi_account(key, answer)
    ELSE [key |-> key, ret |-> key, log |-> <<>>]

\* ---------------------------------------------------------------------
\* Calls and returns.

\* Entry of a write operation: the records of the previous one are
\* dropped.
Enter(name, lamports, pool, first_step) ==
    /\ op' = name
    /\ amount_lamports' = lamports
    /\ pool_id' = pool
    /\ ephemeral' = None
    /\ rent_lamports' = PyInt(0)
    /\ sent' = <<>>
    /\ built' = <<>>
    /\ signing_keypairs' = <<>>
    /\ tx' = NoTx
    /\ result' = Running
    /\ pc' = first_step

\* A call that no flow makes.
Direct ==
    /\ flow' = "none"
    /\ wallet_status' = NoStatus
    /\ positions' = <<>>
    /\ env' = NoEnv

\* A direct call of a write operation, on a constructed client.
Call(name, lamports, pool, first_step) ==
    /\ pc = "idle"
    /\ keys_generated < MaxKeys
    /\ Direct
    /\ Enter(name, lamports, pool, first_step)

\* Return to the caller, who holds the value until the next call.
Return(value) ==
    /\ result' = value
    /\ pc' = "returned"

\* ---------------------------------------------------------------------
\* Read operations.

\* A request to the price oracle.
PriceRequest == <<"requests.get", "simple/price">>

\* get_account_info on a resolved address, for the data of the account.
DataFetch(pubkey) == RpcCall("get_account_info", pubkey) \o <<"data">>

\* A read operation: one call on a constructed client that returns `value`
\* after the requests `log`.
Reads(name, value, log) ==
    /\ pc = "idle"
    /\ op' = name
    /\ result' = value
    /\ rpc_log' = log
    /\ pc' = "returned"
    /\ flow' = "none"
    /\ UNCHANGED <<test_mode, keys_generated, amount_lamports, pool_id, verified,
                   ephemeral, rent_lamports, sent, built, signing_keypairs, tx,
                   amount_sol>>

\* find_marginfi_group() called directly.
FindMarginfiGroup ==
    /\ pc = "idle"
    /\ \E scan \in ScanAnswers :
       \E answers \in [1..Len(known_groups) -> AccountAnswers] :
          LET group == find_marginfi_group(marginfi_group_key, answers, scan)
          IN  /\ scan \in ScanAnswersAsked(None, answers)
              /\ Reads("find_marginfi_group", group.ret, group.log)
              /\ marginfi_group_key' = group.key
              /\ env' = [asked |-> "group", answers |-> answers, scan |-> scan]
              /\ UNCHANGED <<sol_bank_key, marginfi_account_key, wallet_status,
                             positions>>

\* find_sol_bank() called directly.
FindSolBank ==
    /\ pc = "idle"
    /\ \E answer \in AccountAnswers :
           LET bank == find_sol_bank(sol_bank_key, answer)
           IN  /\ Reads("find_sol_bank", bank.ret, bank.log)
               /\ sol_bank_key' = bank.key
               /\ env' = [asked |-> "bank", answer |-> answer]
               /\ UNCHANGED <<marginfi_group_key, marginfi_account_key,
                              wallet_status, positions>>

\* find_marginfi_account() called directly.
FindMarginfiAccount ==
    /\ pc = "idle"
    /\ \E answer \in AccountAnswers :
           LET account == find_marginfi_account(marginfi_account_key, answer)
           IN  /\ Reads("find_marginfi_account", account.ret, account.log)
               /\ marginfi_account_key' = account.key
               /\ env' = [asked |-> "account", answer |-> answer]
               /\ UNCHANGED <<marginfi_group_key, sol_bank_key, wallet_status,
                              positions>>

\* A list returned, as its entries after the word "list".
List(entries) == <<"list">> \o entries

\* get_marginfi_accounts(), lines 213-236: find_marginfi_account() whatever
\* the cache holds, then the data of the account it returned.
get_marginfi_accounts(key, answer, data) ==
    LET account == find_marginfi_account(key, answer)
    IN  IF account.ret = None
        THEN [key |-> account.key, ret |-> List(<<>>), log |-> account.log]
        ELSE [key |-> account.key,
              ret |-> IF data \in {"owned", "foreign"}
                      THEN List(account.ret) ELSE List(<<>>),
              log |-> Append(account.log, DataFetch(account.ret))]

GetMarginfiAccounts ==
    /\ pc = "idle"
    /\ \E answer \in AccountAnswers, data \in AccountAnswers :
           LET accounts == get_marginfi_accounts(marginfi_account_key, answer, data)
           IN  /\ answer # "owned" => data = NotAsked
               /\ Reads("get_marginfi_accounts", accounts.ret, accounts.log)
               /\ marginfi_account_key' = accounts.key
               /\ env' = [asked |-> "accounts", answer |-> answer, data |-> data]
               /\ UNCHANGED <<marginfi_group_key, sol_bank_key, wallet_status,
                              positions>>

\* The data of the bank account: the call raises, no account, an account
\* of fewer than 200 bytes, a bank.
BankDataAnswers == {"error", "absent", "short", "bank"}

\* parse_bank_apy(bank_data), lines 480-499.
parse_bank_apy(data) == IF data = "short" THEN <<"0.0">> ELSE <<"2.5">>

\* get_sol_apy(), lines 501-518.
get_sol_apy(key, answer, data) ==
    LET bank == EnsureBank(key, answer)
    IN  IF bank.key = None
        THEN [key |-> bank.key, ret |-> <<"0.0">>, log |-> bank.log]
        ELSE [key |-> bank.key,
              ret |-> IF data \in {"short", "bank"}
                      THEN parse_bank_apy(data) ELSE <<"0.0">>,
              log |-> Append(bank.log, DataFetch(bank.key))]

\* The answers get_sol_apy asks for.
BankDataAsked(key, answer) ==
    IF key = None /\ answer # "owned" THEN {"absent"} ELSE BankDataAnswers

GetSolApy ==
    /\ pc = "idle"
    /\ \E answer \in AccountAnswersAsked(sol_bank_key) :
       \E data \in BankDataAsked(sol_bank_key, answer) :
           LET apy == get_sol_apy(sol_bank_key, answer, data)
           IN  /\ Reads("get_sol_apy", apy.ret, apy.log)
               /\ sol_bank_key' = apy.key
               /\ env' = [asked |-> "apy", answer |-> answer, data |-> data]
               /\ UNCHANGED <<marginfi_group_key, marginfi_account_key,
                              wallet_status, positions>>

\* get_lending_pools(), lines 404-431: the bank, and its APY.
get_lending_pools(key, answer, data) ==
    LET bank == EnsureBank(key, answer)
        apy == get_sol_apy(bank.key, NotAsked, data)
    IN  IF bank.key = None
        THEN [key |-> bank.key, ret |-> List(<<>>), log |-> bank.log]
        ELSE [key |-> bank.key, ret |-> List(bank.key \o apy.ret),
              log |-> bank.log \o apy.log]

GetLendingPools ==
    /\ pc = "idle"
    /\ \E answer \in AccountAnswersAsked(sol_bank_key) :
       \E data \in BankDataAsked(sol_bank_key, answer) :
           LET pools == get_lending_pools(sol_bank_key, answer, data)
           IN  /\ Reads("get_lending_pools", pools.ret, pools.log)
               /\ sol_bank_key' = pools.key
               /\ env' = [asked |-> "pools", answer |-> answer, data |-> data]
               /\ UNCHANGED <<marginfi_group_key, marginfi_account_key,
                              wallet_status, positions>>

\* The price _get_sol_price obtains: none (no answer, or not status 200),
\* a positive number, zero, a string.
SolPriceAnswers == {"fallback", "positive", "zero", "string"}

\* get_marginfi_positions(), lines 319-391: the lending account, its data,
\* and the price, asked once for the position and once for the total.  The
\* position is listed when the price is a positive number; its amounts are
\* not modelled.
get_marginfi_positions(key, answer, data, price) ==
    LET account == EnsureAccount(key, answer)
        fetched == Append(account.log, DataFetch(account.key))
    IN  IF account.key = None
        THEN [key |-> account.key, ret |-> <<"positions", "0">>,
              log |-> account.log]
        ELSE IF data = "error"
        THEN [key |-> account.key, ret |-> <<"positions", "0">>,
              log |-> Append(fetched, PriceRequest)]
        ELSE IF data = "absent"
        THEN [key |-> account.key, ret |-> <<"positions", "0">>,
              log |-> Append(fetched, PriceRequest)]
        ELSE [key |-> account.key,
              ret |-> IF price \in {"fallback", "positive"}
                      THEN <<"positions", "1">> ELSE <<"positions", "0">>,
              log |-> fetched \o <<PriceRequest, PriceRequest>>]

GetMarginfiPositions ==
    /\ pc = "idle"
    /\ \E answer \in AccountAnswersAsked(marginfi_account_key) :
       \E data \in {"error", "absent", "owned"}, price \in SolPriceAnswers :
           LET listed == get_marginfi_positions(marginfi_account_key, answer,
                                                data, price)
           IN  /\ Reads("get_marginfi_positions", listed.ret, listed.log)
               /\ marginfi_account_key' = listed.key
               /\ env' = [asked |-> "positions", answer |-> answer, data |-> data,
                          price |-> price]
               /\ UNCHANGED <<marginfi_group_key, sol_bank_key, wallet_status,
                              positions>>

\* ---------------------------------------------------------------------
\* The wallet status.

\* get_balance(wallet): the call raises, the value is None, or lamports.
BalanceAnswers ==
    {[kind |-> "error", lamports |-> 0], [kind |-> "none", lamports |-> 0]}
    \cup {[kind |-> "value", lamports |-> n] : n \in {0, 10000000, 20000000}}

\* The price oracle: no answer in time, an error status, a body that is
\* not JSON, a JSON object without the coin, a coin without "usd", a
\* number under "usd", a string under "usd".
OraclePrices == {Dec(0), Dec(10), Dec(100)}

OracleAnswers ==
    {[kind |-> k, usd |-> NoAmount] :
        k \in {"timeout", "http_error", "not_json", "no_coin", "no_usd"}}
    \cup {[kind |-> "number", usd |-> usd] : usd \in OraclePrices}
    \cup {[kind |-> "string", usd |-> Dec(100)]}

\* get_sol_balance(), lines 238-248.
get_sol_balance(answer) ==
    IF answer.kind = "value" /\ answer.lamports # 0
    THEN FromLamports(PyInt(answer.lamports))
    ELSE NoAmount

\* A price lookup that falls back to a price of 100 USD.
get_token_prices_FallbackPrice(answer) ==
    IF answer.kind \in {"number", "string"}
    THEN [text |-> answer.kind = "string", number |-> answer.usd]
    ELSE [text |-> FALSE, number |-> Dec(100)]

\* get_token_prices(["SOL"])["SOL"], lines 250-284: what the body holds
\* under "usd", whatever its type, and 0.0 otherwise.
get_token_prices(answer) ==
    IF answer.kind \in {"number", "string"}
    THEN [text |-> answer.kind = "string", number |-> answer.usd]
    ELSE [text |-> FALSE, number |-> NoAmount]

\* Line 302: tokens with value > $0.1.
Listed_AtLeast(sol_usd_value) ==
    ~DecLess(sol_usd_value, [neg |-> FALSE, digits |-> <<1>>, scale |-> 1])

Listed(sol_usd_value) ==
    DecLess([neg |-> FALSE, digits |-> <<1>>, scale |-> 1], sol_usd_value)

\* sum(token["value_usd"] for token in tokens), from token i on.
RECURSIVE SumValues(_, _)
SumValues(tokens, i) ==
    IF i > Len(tokens) THEN NoAmount
    ELSE DecAdd(tokens[i].value_usd, SumValues(tokens, i + 1))

\* get_wallet_status(), lines 286-317.  Nothing catches what the product
\* of the balance and the price raises: a float times a string is a
\* TypeError.
get_wallet_status(balance_answer, oracle_answer) ==
    LET sol_balance == get_sol_balance(balance_answer)
        sol_price == get_token_prices(oracle_answer)
        sol_usd_value == DecMul(sol_balance, sol_price.number)
        tokens == IF Listed(sol_usd_value)
                  THEN <<[symbol |-> "SOL", balance |-> sol_balance,
                          price_usd |-> sol_price.number,
                          value_usd |-> sol_usd_value]>>
                  ELSE <<>>
    IN  IF sol_price.text
        THEN [raised |-> TRUE, tokens |-> <<>>, total_value_usd |-> NoAmount]
        ELSE [raised |-> FALSE, tokens |-> tokens,
              total_value_usd |-> SumValues(tokens, 1)]

\* The requests of get_wallet_status.
WalletStatusLog == <<RpcCall("get_balance", WalletKey), PriceRequest>>

GetWalletStatus ==
    /\ pc = "idle"
    /\ \E balance_answer \in BalanceAnswers, oracle_answer \in OracleAnswers :
           LET status == get_wallet_status(balance_answer, oracle_answer)
           IN  /\ Reads("get_wallet_status",
                        IF status.raised THEN <<"TypeError">> ELSE <<"status">>,
                        WalletStatusLog)
               /\ wallet_status' = status
               /\ env' = [asked |-> "status", balance |-> balance_answer,
                          oracle |-> oracle_answer]
               /\ UNCHANGED <<cache, positions>>

\* ---------------------------------------------------------------------
\* lend_sol(amount)

\* An entry that keeps a lending account already cached.
LendEntry_KeepsCached(amount, log) ==
    /\ Enter("lend_sol", ToLamports(amount), "", "lend_resolve")
    /\ amount_sol' = amount
    /\ marginfi_account_key' =
          IF marginfi_account_key = None THEN existing_marginfi_account
          ELSE marginfi_account_key
    /\ IF test_mode
       THEN rpc_log' = log /\ verified' = "unchecked"
       ELSE /\ rpc_log' = Append(log, RpcCall("get_account_info",
                                              existing_marginfi_account))
            /\ verified' \in AccountAnswers
    /\ UNCHANGED <<test_mode, marginfi_group_key, sol_bank_key, keys_generated>>

\* Lines 621-644: the conversion to lamports, the pinned lending account,
\* and outside test mode one look at that account, whose answer is only
\* printed.
LendEntry(amount, log) ==
    /\ Enter("lend_sol", ToLamports(amount), "", "lend_resolve")
    /\ amount_sol' = amount
    /\ marginfi_account_key' = existing_marginfi_account
    /\ IF test_mode
       THEN rpc_log' = log /\ verified' = "unchecked"
       ELSE /\ rpc_log' = Append(log, RpcCall("get_account_info",
                                              existing_marginfi_account))
            /\ verified' \in AccountAnswers
    /\ UNCHANGED <<test_mode, marginfi_group_key, sol_bank_key, keys_generated>>

\* lend_sol called directly.
LendStart ==
    \E amount \in Amounts :
        /\ pc = "idle"
        /\ keys_generated < MaxKeys
        /\ Direct
        /\ LendEntry(amount, <<>>)

\* Lines 646-657: the group and the bank.
LendResolve ==
    /\ pc = "lend_resolve"
    /\ \E answers \in GroupAnswersAsked(marginfi_group_key) :
       \E scan \in ScanAnswersAsked(marginfi_group_key, answers) :
          LET group == EnsureGroup(marginfi_group_key, answers, scan)
          IN  /\ marginfi_group_key' = group.key
              /\ IF group.key = None
                 THEN /\ rpc_log' = rpc_log \o group.log
                      /\ sol_bank_key' = sol_bank_key
                      /\ Return(False)
                 ELSE \E bank_answer \in AccountAnswersAsked(sol_bank_key) :
                      LET bank == EnsureBank(sol_bank_key, bank_answer)
                      IN  /\ rpc_log' = rpc_log \o group.log \o bank.log
                          /\ sol_bank_key' = bank.key
                          /\ IF bank.key = None
                             THEN Return(False)
                             ELSE pc' = "lend_build" /\ result' = result
    /\ UNCHANGED <<args, marginfi_account_key, keys_generated, ephemeral,
                   rent_lamports, built, signing_keypairs, tx, sent>>

\* The deposit payload: discriminator, amount as u64, None for the
\* Option<bool>.
DepositData(lamports) ==
    LET deposit_discriminator ==
            calculate_anchor_discriminator("lending_account_deposit")
        amount_bytes == to_bytes(lamports, 8)
    IN  IF amount_bytes.raised THEN Raised
        ELSE Ok(deposit_discriminator \o amount_bytes.value \o <<0>>)

deposit_accounts(group, account, bank, temp_wsol_account, bank_vault) ==
    AccountList(<<
        AccountMeta(group, FALSE, FALSE),
        AccountMeta(account, FALSE, TRUE),
        AccountMeta(WalletKey, TRUE, TRUE),
        AccountMeta(bank, FALSE, TRUE),
        AccountMeta(temp_wsol_account, FALSE, TRUE),
        AccountMeta(bank_vault, FALSE, TRUE),
        AccountMeta(TOKEN_PROGRAM_ID, FALSE, FALSE) >>)

LiquidityVault(bank) ==
    find_program_address(<< <<"liquidity_vault">>, bank >>, MARGINFI_PROGRAM_ID)

\* A deposit whose temporary account is funded with the rent only.
LendFunding_RentOnly(rent, lamports) == rent

\* The lamports the temporary account of a deposit is created with.
LendFunding(rent, lamports) == IntAdd(rent, lamports)

\* Lines 669-736: the Instruction objects constructed, in order, up to the
\* first expression that raises.
LendInstructions(group, account, bank, temp_wsol_account, rent, lamports) ==
    LET bank_vault == LiquidityVault(bank)
        create == create_account(WalletKey, temp_wsol_account,
                                 LendFunding(rent, lamports),
                                 ACCOUNT_LEN, TOKEN_PROGRAM_ID)
        init == initialize_account(TOKEN_PROGRAM_ID, temp_wsol_account,
                                   SOL_MINT_PUBKEY, WalletKey)
        data == DepositData(lamports)
        accounts == deposit_accounts(group, account, bank, temp_wsol_account,
                                     bank_vault)
        close == close_account(temp_wsol_account, WalletKey, WalletKey,
                               TOKEN_PROGRAM_ID)
    IN  IF create.raised THEN [raised |-> TRUE, value |-> <<>>]
        ELSE IF data.raised \/ accounts.raised
        THEN [raised |-> TRUE, value |-> <<create.value, init>>]
        ELSE Ok(<<create.value, init,
                  Instruction(MARGINFI_PROGRAM_ID, data.value, accounts.value),
                  close>>)

\* Lines 659-736: the vault, the temporary keypair, the rent and the four
\* operational instructions.
LendBuild ==
    /\ pc = "lend_build"
    /\ ephemeral' = NewKeypair(keys_generated + 1)
    /\ keys_generated' = keys_generated + 1
    /\ rpc_log' = Append(rpc_log, <<"get_minimum_balance_for_rent_exemption">>)
    /\ \E rent \in RentAnswers :
          IF rent < 0
          THEN UNCHANGED <<rent_lamports, built>> /\ Return(False)
          ELSE LET instrs == LendInstructions(
                                 marginfi_group_key, marginfi_account_key,
                                 sol_bank_key, ephemeral', PyInt(rent),
                                 amount_lamports)
               IN  /\ rent_lamports' = PyInt(rent)
                   /\ built' = built \o instrs.value
                   /\ IF instrs.raised
                      THEN Return(False)
                      ELSE pc' = "lend_assemble" /\ result' = result
    /\ UNCHANGED <<args, cache, signing_keypairs, tx, sent>>

\* full_instructions: the two compute-budget instructions, then the
\* operational ones.
\* The compute-budget instructions placed after the operational ones.
FullInstructions_BudgetLast(unit_limit, instrs) ==
    instrs \o <<set_compute_unit_limit(unit_limit),
                set_compute_unit_price(PRIORITY_FEE_MICRO_LAMPORTS)>>

FullInstructions(unit_limit, instrs) ==
    <<set_compute_unit_limit(unit_limit),
      set_compute_unit_price(PRIORITY_FEE_MICRO_LAMPORTS)>> \o instrs

\* The fee payer signing alone.
LendSigningKeypairs_PayerOnly(wallet, temp_wsol_account) == <<wallet>>

LendSigningKeypairs(wallet, temp_wsol_account) == <<wallet, temp_wsol_account>>

\* An assembly that fetches no block reference and signs over a stale one.
Assemble_StaleBlockhash(unit_limit, keypairs, next_step) ==
    LET full_instructions == FullInstructions(unit_limit, built)
        signed == new_signed_with_payer(full_instructions, WalletKey,
                                        keypairs, "blockhash")
    IN  /\ rpc_log' = rpc_log
        /\ built' = built \o SubSeq(full_instructions, 1, 2)
        /\ signing_keypairs' = keypairs
        /\ IF signed.raised
           THEN tx' = tx /\ Return(False)
           ELSE /\ tx' = signed.value
                /\ pc' = next_step
                /\ result' = result

\* The block reference, full_instructions and the signed transaction of a
\* call whose operational instructions are `built`.
Assemble(unit_limit, keypairs, next_step) ==
    /\ rpc_log' = Append(rpc_log, <<"get_latest_blockhash">>)
    /\ \E recent_blockhash \in BlockhashAnswers :
          IF recent_blockhash = "error"
          THEN /\ UNCHANGED <<built, signing_keypairs, tx>>
               /\ Return(False)
          ELSE LET full_instructions == FullInstructions(unit_limit, built)
                   signed == new_signed_with_payer(full_instructions, WalletKey,
                                                   keypairs, recent_blockhash)
               IN  /\ built' = built \o SubSeq(full_instructions, 1, 2)
                   /\ signing_keypairs' = keypairs
                   /\ IF signed.raised
                      THEN tx' = tx /\ Return(False)
                      ELSE /\ tx' = signed.value
                           /\ pc' = next_step
                           /\ result' = result

\* Lines 738-752.
LendAssemble ==
    /\ pc = "lend_assemble"
    /\ Assemble(LEND_UNIT_LIMIT, LendSigningKeypairs(WalletKey, ephemeral),
                "lend_send")
    /\ UNCHANGED <<args, cache, keys_generated, ephemeral, rent_lamports, sent>>

\* Success reported whatever the backend answered.
LendSendResult_AlwaysTrue(answer) == True

\* Lines 758-775: the value returned after send_transaction.
LendSendResult(answer) == IF answer = "accepted" THEN True ELSE False

\* Lines 758-775.
LendSend ==
    /\ pc = "lend_send"
    /\ rpc_log' = Append(rpc_log, <<"send_transaction">>)
    /\ \E answer \in SendAnswers :
          /\ sent' = Append(sent, answer)
          /\ Return(LendSendResult(answer))
    /\ UNCHANGED <<args, cache, keys_generated, ephemeral, rent_lamports,
                   built, signing_keypairs, tx>>

\* ---------------------------------------------------------------------
\* withdraw_from_pool(pool_id, amount)

\* Lines 786-787.
WithdrawEntry(pool, amount, log) ==
    /\ Enter("withdraw_from_pool", ToLamports(amount), pool, "withdraw_resolve")
    /\ amount_sol' = amount
    /\ rpc_log' = log
    /\ verified' = "unchecked"
    /\ UNCHANGED <<test_mode, cache, keys_generated>>

\* withdraw_from_pool called directly.
WithdrawStart ==
    \E pool \in PoolIds, amount \in Amounts :
        /\ pc = "idle"
        /\ keys_generated < MaxKeys
        /\ Direct
        /\ WithdrawEntry(pool, amount, <<>>)

\* Lines 789-800: the lending account and the bank.
WithdrawResolve ==
    /\ pc = "withdraw_resolve"
    /\ \E account_answer \in AccountAnswersAsked(marginfi_account_key) :
          LET account == EnsureAccount(marginfi_account_key, account_answer)
          IN  /\ marginfi_account_key' = account.key
              /\ IF account.key = None
                 THEN /\ rpc_log' = rpc_log \o account.log
                      /\ sol_bank_key' = sol_bank_key
                      /\ Return(False)
                 ELSE \E bank_answer \in AccountAnswersAsked(sol_bank_key) :
                      LET bank == EnsureBank(sol_bank_key, bank_answer)
                      IN  /\ rpc_log' = rpc_log \o account.log \o bank.log
                          /\ sol_bank_key' = bank.key
                          /\ IF bank.key = None
                             THEN Return(False)
                             ELSE pc' = "withdraw_build" /\ result' = result
    /\ UNCHANGED <<args, marginfi_group_key, keys_generated, ephemeral,
                   rent_lamports, built, signing_keypairs, tx, sent>>

\* The withdraw payload: the literal discriminator, amount as u64.
WithdrawData(lamports) ==
    LET amount_bytes == to_bytes(lamports, 8)
    IN  IF amount_bytes.raised THEN Raised
        ELSE Ok(withdraw_discriminator \o amount_bytes.value)

\* The withdraw accounts in the order of the deposit instruction.
withdraw_accounts_DepositOrder(group, account, bank, temp_wsol_account, bank_vault) ==
    AccountList(<<
        AccountMeta(group, FALSE, FALSE),
        AccountMeta(account, FALSE, TRUE),
        AccountMeta(WalletKey, TRUE, TRUE),
        AccountMeta(bank, FALSE, TRUE),
        AccountMeta(temp_wsol_account, FALSE, TRUE),
        AccountMeta(bank_vault, FALSE, TRUE),
        AccountMeta(TOKEN_PROGRAM_ID, FALSE, FALSE) >>)

withdraw_accounts(group, account, bank, temp_wsol_account, bank_vault) ==
    AccountList(<<
        AccountMeta(account, FALSE, TRUE),
        AccountMeta(group, FALSE, FALSE),
        AccountMeta(temp_wsol_account, FALSE, TRUE),
        AccountMeta(bank, FALSE, TRUE),
        AccountMeta(bank_vault, FALSE, TRUE),
        AccountMeta(TOKEN_PROGRAM_ID, FALSE, FALSE),
        AccountMeta(WalletKey, TRUE, TRUE) >>)

\* A withdrawal whose temporary account is funded with rent plus amount.
WithdrawFunding_RentPlusAmount(rent, lamports) == IntAdd(rent, lamports)

\* The lamports the temporary account of a withdrawal is created with.
WithdrawFunding(rent, lamports) == rent

\* Lines 812-860: the Instruction objects constructed, in order, up to the
\* first expression that raises.
WithdrawInstructions(group, account, bank, temp_wsol_account, rent, lamports) ==
    LET bank_vault == LiquidityVault(bank)
        create == create_account(WalletKey, temp_wsol_account,
                                 WithdrawFunding(rent, lamports),
                                 ACCOUNT_LEN, TOKEN_PROGRAM_ID)
        init == initialize_account(TOKEN_PROGRAM_ID, temp_wsol_account,
                                   SOL_MINT_PUBKEY, WalletKey)
        data == WithdrawData(lamports)
        accounts == withdraw_accounts(group, account, bank, temp_wsol_account,
                                      bank_vault)
        close == close_account(temp_wsol_account, WalletKey, WalletKey,
                               TOKEN_PROGRAM_ID)
    IN  IF create.raised THEN [raised |-> TRUE, value |-> <<>>]
        ELSE IF data.raised \/ accounts.raised
        THEN [raised |-> TRUE, value |-> <<create.value, init>>]
        ELSE Ok(<<create.value, init,
                  Instruction(MARGINFI_PROGRAM_ID, data.value, accounts.value),
                  close>>)

\* A withdrawal from the bank that pool_id names.
WithdrawBuild_BankFromPool ==
    /\ pc = "withdraw_build"
    /\ ephemeral' = NewKeypair(keys_generated + 1)
    /\ keys_generated' = keys_generated + 1
    /\ rpc_log' = Append(rpc_log, <<"get_minimum_balance_for_rent_exemption">>)
    /\ \E rent \in RentAnswers :
          IF rent < 0
          THEN UNCHANGED <<rent_lamports, built>> /\ Return(False)
          ELSE LET instrs == WithdrawInstructions(
                                 marginfi_group_key, marginfi_account_key,
                                 <<pool_id>>, ephemeral', PyInt(rent),
                                 amount_lamports)
               IN  /\ rent_lamports' = PyInt(rent)
                   /\ built' = built \o instrs.value
                   /\ IF instrs.raised
                      THEN Return(False)
                      ELSE pc' = "withdraw_assemble" /\ result' = result
    /\ UNCHANGED <<args, cache, signing_keypairs, tx, sent>>

\* Lines 802-860: the vault, the temporary keypair, the rent and the four
\* operational instructions.
WithdrawBuild ==
    /\ pc = "withdraw_build"
    /\ ephemeral' = NewKeypair(keys_generated + 1)
    /\ keys_generated' = keys_generated + 1
    /\ rpc_log' = Append(rpc_log, <<"get_minimum_balance_for_rent_exemption">>)
    /\ \E rent \in RentAnswers :
          IF rent < 0
          THEN UNCHANGED <<rent_lamports, built>> /\ Return(False)
          ELSE LET instrs == WithdrawInstructions(
                                 marginfi_group_key, marginfi_account_key,
                                 sol_bank_key, ephemeral', PyInt(rent),
                                 amount_lamports)
               IN  /\ rent_lamports' = PyInt(rent)
                   /\ built' = built \o instrs.value
                   /\ IF instrs.raised
                      THEN Return(False)
                      ELSE pc' = "withdraw_assemble" /\ result' = result
    /\ UNCHANGED <<args, cache, signing_keypairs, tx, sent>>

WithdrawSigningKeypairs(wallet, temp_wsol_account) == <<wallet, temp_wsol_account>>

\* Lines 862-876.
WithdrawAssemble ==
    /\ pc = "withdraw_assemble"
    /\ Assemble(WITHDRAW_UNIT_LIMIT,
                WithdrawSigningKeypairs(WalletKey, ephemeral), "withdraw_send")
    /\ UNCHANGED <<args, cache, keys_generated, ephemeral, rent_lamports, sent>>

\* Lines 878-889: a rejection raises into the handler of the whole body.
WithdrawSendResult(answer) == IF answer = "accepted" THEN True ELSE False

\* Lines 878-889.
WithdrawSend ==
    /\ pc = "withdraw_send"
    /\ rpc_log' = Append(rpc_log, <<"send_transaction">>)
    /\ \E answer \in SendAnswers :
          /\ sent' = Append(sent, answer)
          /\ Return(WithdrawSendResult(answer))
    /\ UNCHANGED <<args, cache, keys_generated, ephemeral, rent_lamports,
                   built, signing_keypairs, tx>>

\* ---------------------------------------------------------------------
\* create_marginfi_account()

CreateStart ==
    /\ Call("create_marginfi_account", PyInt(0), "", "create_resolve")
    /\ amount_sol' = NoAmount
    /\ rpc_log' = <<>>
    /\ verified' = "unchecked"
    /\ UNCHANGED <<test_mode, cache, keys_generated>>

\* Lines 525-533: the group and the bank are looked for, and only the
\* group is required.
CreateResolve ==
    /\ pc = "create_resolve"
    /\ \E answers \in GroupAnswersAsked(marginfi_group_key) :
       \E scan \in ScanAnswersAsked(marginfi_group_key, answers) :
       \E bank_answer \in AccountAnswersAsked(sol_bank_key) :
          LET group == EnsureGroup(marginfi_group_key, answers, scan)
              bank == EnsureBank(sol_bank_key, bank_answer)
          IN  /\ marginfi_group_key' = group.key
              /\ sol_bank_key' = bank.key
              /\ rpc_log' = rpc_log \o group.log \o bank.log
              /\ IF group.key = None
                 THEN Return(None)
                 ELSE pc' = "create_build" /\ result' = result
    /\ UNCHANGED <<args, marginfi_account_key, keys_generated, ephemeral,
                   rent_lamports, built, signing_keypairs, tx, sent>>

\* The account-initialize payload: the discriminator and no arguments.
InitializeData == calculate_anchor_discriminator("marginfi_account_initialize")

\* The authority marked writable and the fee payer dropped.
initialize_accounts_NoFeePayer(group, marginfi_account_pubkey) ==
    AccountList(<<
        AccountMeta(group, FALSE, FALSE),
        AccountMeta(marginfi_account_pubkey, TRUE, TRUE),
        AccountMeta(WalletKey, TRUE, TRUE),
        AccountMeta(SYSTEM_PROGRAM_ID, FALSE, FALSE) >>)

initialize_accounts(group, marginfi_account_pubkey) ==
    AccountList(<<
        AccountMeta(group, FALSE, FALSE),
        AccountMeta(marginfi_account_pubkey, TRUE, TRUE),
        AccountMeta(WalletKey, TRUE, FALSE),
        AccountMeta(WalletKey, TRUE, TRUE),
        AccountMeta(SYSTEM_PROGRAM_ID, FALSE, FALSE) >>)

\* Lines 558-574.
CreateInstructions(group, marginfi_account_pubkey) ==
    LET accounts == initialize_accounts(group, marginfi_account_pubkey)
    IN  IF accounts.raised THEN [raised |-> TRUE, value |-> <<>>]
        ELSE Ok(<<Instruction(MARGINFI_PROGRAM_ID, InitializeData, accounts.value)>>)

\* Lines 535-574: the new keypair, the look whether its account exists
\* already, and the initialize instruction.
CreateBuild ==
    /\ pc = "create_build"
    /\ ephemeral' = NewKeypair(keys_generated + 1)
    /\ keys_generated' = keys_generated + 1
    /\ rpc_log' = Append(rpc_log, RpcCall("get_account_info", ephemeral'))
    /\ \E answer \in AccountAnswers :
          IF answer = "error"
          THEN /\ UNCHANGED <<marginfi_account_key, built>>
               /\ Return(None)
          ELSE IF answer \in {"owned", "foreign"}
          THEN /\ marginfi_account_key' = ephemeral'
               /\ built' = built
               /\ Return(ephemeral')
          ELSE LET instrs == CreateInstructions(marginfi_group_key, ephemeral')
               IN  /\ marginfi_account_key' = marginfi_account_key
                   /\ built' = built \o instrs.value
                   /\ IF instrs.raised
                      THEN Return(None)
                      ELSE pc' = "create_assemble" /\ result' = result
    /\ UNCHANGED <<args, marginfi_group_key, sol_bank_key, rent_lamports,
                   signing_keypairs, tx, sent>>

CreateSigningKeypairs(wallet, marginfi_account_keypair) ==
    <<wallet, marginfi_account_keypair>>

\* Lines 576-590.
CreateAssemble ==
    /\ pc = "create_assemble"
    /\ Assemble(CREATE_ACCOUNT_UNIT_LIMIT,
                CreateSigningKeypairs(WalletKey, ephemeral), "create_send")
    /\ UNCHANGED <<args, cache, keys_generated, ephemeral, rent_lamports, sent>>

\* A submission that caches the generated address whatever the answer.
CreateSend_CachesAlways ==
    /\ pc = "create_send"
    /\ rpc_log' = Append(rpc_log, <<"send_transaction">>)
    /\ \E answer \in SendAnswers :
          /\ sent' = Append(sent, answer)
          /\ marginfi_account_key' = ephemeral
          /\ IF answer = "accepted" THEN Return(ephemeral) ELSE Return(None)
    /\ UNCHANGED <<args, marginfi_group_key, sol_bank_key, keys_generated,
                   ephemeral, rent_lamports, built, signing_keypairs, tx>>

\* Lines 595-610.
CreateSend ==
    /\ pc = "create_send"
    /\ rpc_log' = Append(rpc_log, <<"send_transaction">>)
    /\ \E answer \in SendAnswers :
          /\ sent' = Append(sent, answer)
          /\ IF answer = "accepted"
             THEN marginfi_account_key' = ephemeral /\ Return(ephemeral)
             ELSE marginfi_account_key' = marginfi_account_key /\ Return(None)
    /\ UNCHANGED <<args, marginfi_group_key, sol_bank_key, keys_generated,
                   ephemeral, rent_lamports, built, signing_keypairs, tx>>

\* ---------------------------------------------------------------------
\* The flows.  A flow that reaches lend_sol or withdraw_from_pool ends with
\* that call; what it makes of the value returned is only printed or
\* passed on.

\* [t for t in wallet_status['tokens'] if t['symbol'] == 'SOL']
SolTokens(status) == SelectSeq(status.tokens, LAMBDA t : t.symbol = "SOL")

\* amount > available, with a variant that lets every amount through.
Exceeds_Never(amount, available) == FALSE

Exceeds(amount, available) == DecLess(available, amount)

\* amount <= 0
NotPositive(amount) == ~DecLess(NoAmount, amount)

\* The amounts the flows are asked for: 0.02, 0, 0.0000000005 and -1 SOL.
FlowAmounts ==
    { [neg |-> FALSE, digits |-> <<2>>, scale |-> 2],
      [neg |-> FALSE, digits |-> <<0>>, scale |-> 0],
      [neg |-> FALSE, digits |-> <<5>>, scale |-> 10],
      [neg |-> TRUE, digits |-> <<1>>, scale |-> 0] }

\* What the user types for an amount: nothing, no number, a number.
AmountInputs ==
    {[kind |-> k, value |-> NoAmount] : k \in {"empty", "text"}}
    \cup {[kind |-> "number", value |-> amount] : amount \in FlowAmounts}

\* The answers test_lending_flow's wallet status is computed from.
FlowBalanceAnswers ==
    {[kind |-> "error", lamports |-> 0], [kind |-> "value", lamports |-> 10000000],
     [kind |-> "value", lamports |-> 20000000]}

FlowOracleAnswers ==
    {[kind |-> "timeout", usd |-> NoAmount], [kind |-> "number", usd |-> Dec(100)],
     [kind |-> "string", usd |-> Dec(100)]}

\* The wallet statuses the flows are given.
FlowStatuses ==
    {status \in {get_wallet_status(balance_answer, oracle_answer) :
                    balance_answer \in FlowBalanceAnswers,
                    oracle_answer \in FlowOracleAnswers} : ~status.raised}

\* What a flow leaves alone until it calls a write operation.
WriteRecords ==
    <<amount_lamports, pool_id, verified, ephemeral, rent_lamports, sent,
      built, signing_keypairs, tx>>

\* A step of a flow that calls no write operation.
FlowStep(name) ==
    /\ op' = name
    /\ flow' = name
    /\ UNCHANGED <<test_mode, keys_generated, WriteRecords>>

\* lending_flow(wallet_status), lines 891-912: the SOL entry of the status
\* and the APY.
LendingFlow ==
    /\ pc = "idle"
    /\ keys_generated < MaxKeys
    /\ \E status \in FlowStatuses :
          /\ wallet_status' = status
          /\ IF SolTokens(status) = <<>>
             THEN /\ Return(None)
                  /\ rpc_log' = <<>>
                  /\ sol_bank_key' = sol_bank_key
             ELSE \E answer \in AccountAnswersAsked(sol_bank_key) :
                  \E data \in BankDataAsked(sol_bank_key, answer) :
                     LET apy == get_sol_apy(sol_bank_key, answer, data)
                     IN  /\ sol_bank_key' = apy.key
                         /\ rpc_log' = apy.log
                         /\ pc' = "lending_flow_amount"
                         /\ result' = Running
    /\ FlowStep("lending_flow")
    /\ amount_sol' = NoAmount
    /\ positions' = <<>>
    /\ env' = NoEnv
    /\ UNCHANGED <<marginfi_group_key, marginfi_account_key>>

\* Lines 915-938: the amount is asked for until it is a number, positive
\* and not above the balance.
LendingFlowAmount ==
    /\ pc = "lending_flow_amount"
    /\ \E input \in AmountInputs :
          LET sol_balance == SolTokens(wallet_status)[1].balance
          IN  /\ env' = [asked |-> "amount", selected |-> 0, input |-> input]
              /\ IF \/ input.kind # "number"
                    \/ NotPositive(input.value)
                    \/ Exceeds(input.value, sol_balance)
                 THEN amount_sol' = amount_sol /\ pc' = pc
                 ELSE amount_sol' = input.value /\ pc' = "lending_flow_confirm"
    /\ UNCHANGED <<test_mode, cache, keys_generated, WriteRecords, op, flow,
                   wallet_status, positions, rpc_log, result>>

\* Lines 940-959: lend_sol(amount) on a confirmation.
LendingFlowConfirm ==
    /\ pc = "lending_flow_confirm"
    /\ \E confirm \in {"yes", "y", "no", ""} :
          IF confirm \in {"yes", "y"}
          THEN LendEntry(amount_sol, rpc_log)
          ELSE /\ Return(None)
               /\ UNCHANGED <<test_mode, cache, keys_generated, WriteRecords, op,
                              amount_sol, rpc_log>>
    /\ UNCHANGED <<flow, wallet_status, positions, env>>

\* auto_lending_flow(wallet_status, amount), lines 1068-1098.
AutoLendingFlow ==
    /\ pc = "idle"
    /\ keys_generated < MaxKeys
    /\ \E status \in FlowStatuses, amount \in FlowAmounts :
          /\ wallet_status' = status
          /\ amount_sol' = amount
          /\ IF SolTokens(status) = <<>>
             THEN /\ Return(False)
                  /\ rpc_log' = <<>>
                  /\ sol_bank_key' = sol_bank_key
             ELSE \E answer \in AccountAnswersAsked(sol_bank_key) :
                  \E data \in BankDataAsked(sol_bank_key, answer) :
                     LET sol_balance == SolTokens(status)[1].balance
                         apy == get_sol_apy(sol_bank_key, answer, data)
                     IN  /\ sol_bank_key' = apy.key
                         /\ rpc_log' = apy.log
                         /\ IF Exceeds(amount, sol_balance)
                            THEN Return(False)
                            ELSE pc' = "flow_lend" /\ result' = Running
    /\ FlowStep("auto_lending_flow")
    /\ positions' = <<>>
    /\ env' = NoEnv
    /\ UNCHANGED <<marginfi_group_key, marginfi_account_key>>

\* test_lending_flow(amount_sol), lines 1043-1057.
TestLendingFlow ==
    /\ pc = "idle"
    /\ keys_generated < MaxKeys
    /\ \E amount \in FlowAmounts :
       \E balance_answer \in FlowBalanceAnswers, oracle_answer \in FlowOracleAnswers :
          LET status == get_wallet_status(balance_answer, oracle_answer)
              sol_tokens == SolTokens(status)
          IN  /\ wallet_status' = status
              /\ amount_sol' = amount
              /\ env' = [asked |-> "status", balance |-> balance_answer,
                         oracle |-> oracle_answer]
              /\ IF status.raised THEN Return(<<"TypeError">>)
                 ELSE IF sol_tokens = <<>> THEN Return(False)
                 ELSE IF Exceeds(amount, sol_tokens[1].balance) THEN Return(False)
                 ELSE pc' = "flow_lend" /\ result' = Running
    /\ rpc_log' = WalletStatusLog
    /\ FlowStep("test_lending_flow")
    /\ positions' = <<>>
    /\ UNCHANGED cache

\* Lines 1059 and 1111: lend_sol(amount).
FlowLend ==
    /\ pc = "flow_lend"
    /\ LendEntry(amount_sol, rpc_log)
    /\ UNCHANGED <<flow, wallet_status, positions, env>>

\* The positions withdrawal_flow is given: with an amount and no pool_id,
\* as get_marginfi_positions lists them, and with a pool_id and no amount.
Position(keys, amount, pool) == [keys |-> keys, amount |-> amount, pool_id |-> pool]

PositionLists ==
    LET listed == Position({"amount"}, [neg |-> FALSE, digits |-> <<2>>, scale |-> 2], "")
        bare == Position({"pool_id"}, NoAmount,
                         "CCKtUs6Cgwo4aaQUmBPmyoApH2gUDErxNZCAntD6LYGh")
    IN  {<<>>, <<listed>>, <<listed, bare>>}

\* selected_position.get('amount', 0), selected_position.get('pool_id', '')
MaxAmount(position) ==
    IF "amount" \in position.keys THEN position.amount ELSE NoAmount

PoolOf(position) == IF "pool_id" \in position.keys THEN position.pool_id ELSE ""

\* What the user types for a position: nothing, no number, a number.
ChoiceInputs ==
    {[kind |-> k, value |-> 0] : k \in {"empty", "text"}}
    \cup {[kind |-> "number", value |-> n] : n \in 0..3}

\* withdrawal_flow(positions), lines 961-982.
WithdrawalFlow ==
    /\ pc = "idle"
    /\ keys_generated < MaxKeys
    /\ \E listed \in PositionLists :
          /\ positions' = listed
          /\ IF listed = <<>>
             THEN Return(None)
             ELSE pc' = "withdrawal_flow_choice" /\ result' = Running
    /\ FlowStep("withdrawal_flow")
    /\ rpc_log' = <<>>
    /\ amount_sol' = NoAmount
    /\ wallet_status' = NoStatus
    /\ env' = NoEnv
    /\ UNCHANGED cache

\* Lines 984-999: the position is asked for until the number is one of the
\* list.
WithdrawalFlowChoice ==
    /\ pc = "withdrawal_flow_choice"
    /\ \E choice \in ChoiceInputs :
          LET choice_idx == choice.value - 1
          IN  IF choice.kind = "number" /\ 0 <= choice_idx
                                        /\ choice_idx < Len(positions)
              THEN /\ env' = [asked |-> "choice", selected |-> choice.value,
                              input |-> [kind |-> "empty", value |-> NoAmount]]
                   /\ pc' = "withdrawal_flow_amount"
              ELSE /\ env' = [asked |-> "choice", selected |-> 0,
                              input |-> [kind |-> "empty", value |-> NoAmount]]
                   /\ pc' = pc
    /\ UNCHANGED <<test_mode, cache, keys_generated, WriteRecords, op, flow,
                   wallet_status, positions, rpc_log, result, amount_sol>>

\* Lines 1001-1023: the amount is asked for until it is a number, positive
\* and not above the amount of the position.
WithdrawalFlowAmount ==
    /\ pc = "withdrawal_flow_amount"
    /\ \E input \in AmountInputs :
          LET max_amount == MaxAmount(positions[env.selected])
          IN  /\ env' = [env EXCEPT !.asked = "amount", !.input = input]
              /\ IF \/ input.kind # "number"
                    \/ NotPositive(input.value)
                    \/ Exceeds(input.value, max_amount)
                 THEN amount_sol' = amount_sol /\ pc' = pc
                 ELSE amount_sol' = input.value /\ pc' = "withdrawal_flow_confirm"
    /\ UNCHANGED <<test_mode, cache, keys_generated, WriteRecords, op, flow,
                   wallet_status, positions, rpc_log, result>>

\* Lines 1032-1041: withdraw_from_pool(pool_id, amount) on a confirmation.
WithdrawalFlowConfirm ==
    /\ pc = "withdrawal_flow_confirm"
    /\ \E confirm \in {"yes", "y", "no", ""} :
          IF confirm \in {"yes", "y"}
          THEN WithdrawEntry(PoolOf(positions[env.selected]), amount_sol, rpc_log)
          ELSE /\ Return(None)
               /\ UNCHANGED <<test_mode, cache, keys_generated, WriteRecords, op,
                              amount_sol, rpc_log>>
    /\ UNCHANGED <<flow, wallet_status, positions, env>>

\* ---------------------------------------------------------------------
\* Construction, and the caller.

\* The values of WALLET_KEY in the environment: unset, empty, a base58
\* secret key, and a string that is none.
WalletKeyValues == {None, <<"">>, <<"base58 secret key">>, <<"not base58">>}

\* A constructor that takes a missing key for a key.
LoadKeypair_KeyOptional(wallet_key) ==
    IF wallet_key = <<"not base58">> THEN Raised ELSE Ok(WalletKey)

\* Lines 67-72: the wallet key is required, and decoded.
LoadKeypair(wallet_key) ==
    IF wallet_key = None \/ wallet_key = <<"">> THEN Raised
    ELSE IF wallet_key = <<"base58 secret key">> THEN Ok(WalletKey)
    ELSE Raised

\* MarginFiClient(test_mode), lines 65-87: no network request is made; a
\* constructor that raises leaves no client.
Construct ==
    /\ pc = "new"
    /\ \E wallet_key \in WalletKeyValues, mode \in BOOLEAN :
          LET keypair == LoadKeypair(wallet_key)
          IN  /\ env' = [asked |-> "getenv", wallet_key |-> wallet_key]
              /\ IF keypair.raised
                 THEN /\ pc' = "failed"
                      /\ result' = <<"ValueError">>
                      /\ test_mode' = test_mode
                 ELSE /\ pc' = "returned"
                      /\ result' = None
                      /\ test_mode' = mode
    /\ op' = "__init__"
    /\ rpc_log' = <<>>
    /\ UNCHANGED <<cache, keys_generated, amount_lamports, pool_id, verified,
                   ephemeral, rent_lamports, built, signing_keypairs, tx, sent,
                   amount_sol, flow, wallet_status, positions>>

\* The caller goes on to its next call: the records of the call that
\* returned are dropped, the client and its caches stay.
NextChoice ==
    /\ pc = "returned"
    /\ pc' = "idle"
    /\ op' = "none"
    /\ amount_lamports' = PyInt(0)
    /\ pool_id' = ""
    /\ verified' = "unchecked"
    /\ ephemeral' = None
    /\ rent_lamports' = PyInt(0)
    /\ sent' = <<>>
    /\ built' = <<>>
    /\ signing_keypairs' = <<>>
    /\ tx' = NoTx
    /\ rpc_log' = <<>>
    /\ result' = None
    /\ amount_sol' = NoAmount
    /\ Direct
    /\ UNCHANGED <<test_mode, cache, keys_generated>>

Init ==
    /\ test_mode = FALSE
    /\ marginfi_group_key = None
    /\ sol_bank_key = None
    /\ marginfi_account_key = None
    /\ keys_generated = 0
    /\ pc = "new"
    /\ op = "none"
    /\ amount_lamports = PyInt(0)
    /\ pool_id = ""
    /\ verified = "unchecked"
    /\ ephemeral = None
    /\ rent_lamports = PyInt(0)
    /\ sent = <<>>
    /\ built = <<>>
    /\ signing_keypairs = <<>>
    /\ tx = NoTx
    /\ rpc_log = <<>>
    /\ result = None
    /\ amount_sol = NoAmount
    /\ flow = "none"
    /\ wallet_status = NoStatus
    /\ positions = <<>>
    /\ env = NoEnv

Next ==
    \/ Construct
    \/ LendStart
    \/ LendResolve
    \/ LendBuild
    \/ LendAssemble
    \/ LendSend
    \/ WithdrawStart
    \/ WithdrawResolve
    \/ WithdrawBuild
    \/ WithdrawAssemble
    \/ WithdrawSend
    \/ CreateStart
    \/ CreateResolve
    \/ CreateBuild
    \/ CreateAssemble
    \/ CreateSend
    \/ FindMarginfiGroup
    \/ FindSolBank
    \/ FindMarginfiAccount
    \/ GetMarginfiAccounts
    \/ GetSolApy
    \/ GetLendingPools
    \/ GetMarginfiPositions
    \/ GetWalletStatus
    \/ LendingFlow
    \/ LendingFlowAmount
    \/ LendingFlowConfirm
    \/ AutoLendingFlow
    \/ TestLendingFlow
    \/ FlowLend
    \/ WithdrawalFlow
    \/ WithdrawalFlowChoice
    \/ WithdrawalFlowAmount
    \/ WithdrawalFlowConfirm
    \/ NextChoice

Spec == Init /\ [][Next]_vars

\* =====================================================================
\* Properties.

Meta(pubkey, is_signer, is_writable) ==
    [pubkey |-> pubkey, is_signer |-> is_signer, is_writable |-> is_writable]

\* d * 256 + add on a digit string.
RECURSIVE MulAdd256(_, _, _)
MulAdd256(d, carry, acc) ==
    IF d = <<>>
    THEN IF carry = 0 THEN acc ELSE NatDigits(carry) \o acc
    ELSE LET n == Len(d)
             t == d[n] * 256 + carry
         IN  MulAdd256(SubSeq(d, 1, n - 1), t \div 10, <<t % 10>> \o acc)

\* The number a little-endian byte string denotes.
RECURSIVE from_bytes(_)
from_bytes(bytes) ==
    IF bytes = <<>> THEN PyInt(0)
    ELSE LET high == from_bytes(Tail(bytes))
         IN  [neg |-> FALSE,
              digits |-> Strip(MulAdd256(high.digits, bytes[1], <<>>))]

\* The number a little-endian byte field encodes.
Decoded(data, first, last) == from_bytes(SubSeq(data, first, last))

IsUnitLimit(ins, units) ==
    /\ ins.program_id = COMPUTE_BUDGET_ID
    /\ Len(ins.data) = 5 /\ ins.data[1] = 2
    /\ Decoded(ins.data, 2, 5) = PyInt(units)

IsUnitPrice(ins, micro_lamports) ==
    /\ ins.program_id = COMPUTE_BUDGET_ID
    /\ Len(ins.data) = 9 /\ ins.data[1] = 3
    /\ Decoded(ins.data, 2, 9) = PyInt(micro_lamports)

\* A system-program CreateAccount of `space` bytes for `to`, paid by `from`,
\* holding `lamports`, owned by the token program.
IsCreateTokenAccount(ins, from, to, lamports, space) ==
    /\ ins.program_id = SYSTEM_PROGRAM_ID
    /\ Len(ins.data) = 52
    /\ Decoded(ins.data, 1, 4) = PyInt(0)
    /\ Decoded(ins.data, 5, 12) = lamports
    /\ Decoded(ins.data, 13, 20) = PyInt(space)
    /\ SubSeq(ins.data, 21, 52) = PubkeyBytes(TOKEN_PROGRAM_ID)
    /\ ins.accounts = <<Meta(from, TRUE, TRUE), Meta(to, TRUE, TRUE)>>

IsInitializeAccount(ins, account, mint, owner) ==
    /\ ins.program_id = TOKEN_PROGRAM_ID
    /\ ins.data = <<1>>
    /\ Len(ins.accounts) = 4
    /\ ins.accounts[1] = Meta(account, FALSE, TRUE)
    /\ ins.accounts[2].pubkey = mint
    /\ ins.accounts[3].pubkey = owner

IsCloseAccount(ins, account, dest, owner) ==
    /\ ins.program_id = TOKEN_PROGRAM_ID
    /\ ins.data = <<9>>
    /\ ins.accounts = <<Meta(account, FALSE, TRUE), Meta(dest, FALSE, TRUE),
                        Meta(owner, TRUE, FALSE)>>

IsLending(ins) == ins.program_id = MARGINFI_PROGRAM_ID

DepositTag == <<171, 94, 235, 103, 82, 64, 212, 140>>

WithdrawTag == <<183, 18, 70, 156, 148, 109, 161, 34>>

InitializeTag == <<43, 78, 61, 255, 148, 52, 249, 154>>

Lamports20M == PyInt(20000000)

\* C1: a transaction lend_sol hands to the backend holds exactly six
\* instructions: unit limit, unit price, creation of the temporary token
\* account with rent plus the deposit amount, ACCOUNT_LEN bytes, owned by
\* the token program, its initialization for the native mint with the
\* caller as owner, the lending deposit, and the closing of the temporary
\* account to the caller.
C1_DepositTransaction ==
    (op = "lend_sol" /\ tx # NoTx) =>
        LET ins == tx.instructions
        IN  /\ Len(ins) = 6
            /\ IsUnitLimit(ins[1], 400000)
            /\ IsUnitPrice(ins[2], PRIORITY_FEE_MICRO_LAMPORTS)
            /\ IsCreateTokenAccount(ins[3], WalletKey, ephemeral,
                                    IntAdd(rent_lamports, amount_lamports),
                                    ACCOUNT_LEN)
            /\ IsInitializeAccount(ins[4], ephemeral, SOL_MINT_PUBKEY, WalletKey)
            /\ IsLending(ins[5]) /\ SubSeq(ins[5].data, 1, 8) = DepositTag
            /\ IsCloseAccount(ins[6], ephemeral, WalletKey, WalletKey)

C1_Witness ==
    /\ op = "lend_sol" /\ sent = <<"accepted">> /\ result = True
    /\ amount_lamports = Lamports20M
    /\ Len(tx.instructions) = 6

\* C2: a transaction withdraw_from_pool hands to the backend holds the two
\* compute-budget instructions and then exactly four operational ones:
\* creation of the temporary token account with the rent only,
\* its initialization, the lending withdraw, and the closing of the
\* temporary account to the caller.
C2_WithdrawTransaction ==
    (op = "withdraw_from_pool" /\ tx # NoTx) =>
        LET ins == tx.instructions
        IN  /\ Len(ins) = 6
            /\ ins[1].program_id = COMPUTE_BUDGET_ID
            /\ ins[2].program_id = COMPUTE_BUDGET_ID
            /\ IsCreateTokenAccount(ins[3], WalletKey, ephemeral, rent_lamports,
                                    ACCOUNT_LEN)
            /\ IsInitializeAccount(ins[4], ephemeral, SOL_MINT_PUBKEY, WalletKey)
            /\ IsLending(ins[5]) /\ SubSeq(ins[5].data, 1, 8) = WithdrawTag
            /\ IsCloseAccount(ins[6], ephemeral, WalletKey, WalletKey)

C2_Witness ==
    /\ op = "withdraw_from_pool" /\ sent = <<"accepted">> /\ result = True
    /\ amount_lamports = Lamports20M
    /\ Len(tx.instructions) = 6

\* C3: every transaction of the three write operations starts with the
\* unit limit, 300,000 for the account creation and 400,000 for deposit
\* and withdraw, then the unit price, the same constant in all three, and
\* no compute-budget instruction follows an operational one.
C3_ComputeBudgetFirst ==
    (tx # NoTx) =>
        LET ins == tx.instructions
        IN  /\ Len(ins) >= 3
            /\ IsUnitLimit(ins[1], IF op = "create_marginfi_account"
                                   THEN 300000 ELSE 400000)
            /\ IsUnitPrice(ins[2], PRIORITY_FEE_MICRO_LAMPORTS)
            /\ \A k \in 3..Len(ins) : ins[k].program_id # COMPUTE_BUDGET_ID

C3_Witness ==
    /\ op = "create_marginfi_account" /\ sent = <<"accepted">>
    /\ Len(tx.instructions) = 3

\* C4: the accounts of every deposit instruction constructed are group,
\* lending account, caller, bank, temporary token account, liquidity vault
\* and token program, and those of every withdraw instruction lending
\* account, group, temporary token account, bank, liquidity vault, token
\* program and caller, with the flags below, and none of the seven is the
\* unresolved cache state.
C4_LendingAccountLists ==
    \A i \in 1..Len(built) :
        LET vault == <<"pda", "liquidity_vault">> \o sol_bank_key
                        \o MARGINFI_PROGRAM_ID
            accounts == built[i].accounts
        IN  (IsLending(built[i]) /\ op # "create_marginfi_account") =>
                /\ Len(accounts) = 7
                /\ \A j \in 1..7 : accounts[j].pubkey # None
                /\ op = "lend_sol" =>
                       accounts = << Meta(marginfi_group_key, FALSE, FALSE),
                                     Meta(marginfi_account_key, FALSE, TRUE),
                                     Meta(WalletKey, TRUE, TRUE),
                                     Meta(sol_bank_key, FALSE, TRUE),
                                     Meta(ephemeral, FALSE, TRUE),
                                     Meta(vault, FALSE, TRUE),
                                     Meta(TOKEN_PROGRAM_ID, FALSE, FALSE) >>
                /\ op = "withdraw_from_pool" =>
                       accounts = << Meta(marginfi_account_key, FALSE, TRUE),
                                     Meta(marginfi_group_key, FALSE, FALSE),
                                     Meta(ephemeral, FALSE, TRUE),
                                     Meta(sol_bank_key, FALSE, TRUE),
                                     Meta(vault, FALSE, TRUE),
                                     Meta(TOKEN_PROGRAM_ID, FALSE, FALSE),
                                     Meta(WalletKey, TRUE, TRUE) >>

\* A withdraw instruction built after an earlier call resolved the group.
C4_Witness ==
    /\ op = "withdraw_from_pool" /\ pc = "withdraw_assemble"
    /\ Len(built) = 4 /\ IsLending(built[3])
    /\ marginfi_group_key = known_groups[2]

\* C5: create_marginfi_account constructs exactly one operational
\* instruction, for the lending program, whose payload is the eight bytes
\* of the discriminator of "marginfi_account_initialize" and nothing else,
\* and whose accounts are group, new account (signer, writable), caller as
\* authority (signer), caller as fee payer (signer, writable) and system
\* program; the new account is a keypair generated in this call, not a
\* derived address and not an account an earlier call created.
C5_InitializeInstruction ==
    (op = "create_marginfi_account" /\ built # <<>>) =>
        /\ built[1] =
               [program_id |-> MARGINFI_PROGRAM_ID,
                data |-> InitializeTag,
                accounts |-> << Meta(marginfi_group_key, FALSE, FALSE),
                                Meta(ephemeral, TRUE, TRUE),
                                Meta(WalletKey, TRUE, FALSE),
                                Meta(WalletKey, TRUE, TRUE),
                                Meta(SYSTEM_PROGRAM_ID, FALSE, FALSE) >>]
        /\ Cardinality({i \in 1..Len(built) :
                           built[i].program_id # COMPUTE_BUDGET_ID}) = 1
        /\ ephemeral[1] = "Keypair"
        /\ pc # "returned" => ephemeral # marginfi_account_key

\* The second account creation of a session, its instruction built.
C5_Witness ==
    /\ op = "create_marginfi_account" /\ pc = "create_send"
    /\ marginfi_account_key = NewKeypair(1)
    /\ ephemeral = NewKeypair(2)

U64Max ==
    [neg |-> FALSE,
     digits |-> <<1, 8, 4, 4, 6, 7, 4, 4, 0, 7, 3, 7, 0, 9, 5, 5, 1, 6, 1, 5>>]

InU64(x) == ~x.neg /\ ~DigitsLess(U64Max.digits, x.digits)

\* C6: for an amount of 0..2^64-1 base units the deposit payload is 17
\* bytes, the discriminator, the amount as 8 little-endian bytes and one
\* zero byte, and the withdraw payload is 16 bytes, the literal
\* discriminator and the amount as 8 little-endian bytes; the eight bytes
\* after the discriminator decode to the amount, and these are the
\* payloads of the lending instructions constructed.
C6_PayloadCodec ==
    (op \in {"lend_sol", "withdraw_from_pool"} /\ InU64(amount_lamports)) =>
        LET deposit == DepositData(amount_lamports)
            withdraw == WithdrawData(amount_lamports)
        IN  /\ ~deposit.raised
            /\ Len(deposit.value) = 17
            /\ SubSeq(deposit.value, 1, 8) = DepositTag
            /\ Decoded(deposit.value, 9, 16) = amount_lamports
            /\ deposit.value[17] = 0
            /\ ~withdraw.raised
            /\ Len(withdraw.value) = 16
            /\ SubSeq(withdraw.value, 1, 8) = WithdrawTag
            /\ Decoded(withdraw.value, 9, 16) = amount_lamports
            /\ \A i \in 1..Len(built) :
                  IsLending(built[i]) =>
                      built[i].data = IF op = "lend_sol" THEN deposit.value
                                      ELSE withdraw.value

\* A deposit of 20,000,000 base units, its instruction constructed.
C6_Witness ==
    /\ op = "lend_sol" /\ pc = "lend_assemble"
    /\ amount_lamports = Lamports20M
    /\ Len(built) = 4
    /\ built[3].data = DepositTag \o <<0, 45, 49, 1, 0, 0, 0, 0>> \o <<0>>

\* C7: the keypairs a write operation signs with are the caller's and the
\* one generated in the call, the new lending account's or the temporary
\* token account's; every account an instruction marks as signer is among
\* them, and a transaction on its way to the backend carries exactly
\* these signatures.
C7_Signers ==
    /\ signing_keypairs # <<>> =>
          /\ WalletKey \in Range(signing_keypairs)
          /\ ephemeral # None
          /\ Range(signing_keypairs) = {WalletKey, ephemeral}
          /\ \A i \in 1..Len(built) :
                \A j \in 1..Len(built[i].accounts) :
                    built[i].accounts[j].is_signer =>
                        built[i].accounts[j].pubkey \in Range(signing_keypairs)
    /\ tx # NoTx =>
          /\ signing_keypairs # <<>>
          /\ tx.signers = signing_keypairs
          /\ tx.payer = WalletKey
    /\ sent # <<>> => tx # NoTx

C7_Witness ==
    /\ op = "lend_sol" /\ pc = "lend_send"
    /\ tx.signers = <<WalletKey, NewKeypair(1)>>

SendCalls == {i \in 1..Len(rpc_log) : rpc_log[i] = <<"send_transaction">>}

WriteOperations == {"create_marginfi_account", "lend_sol", "withdraw_from_pool"}

Returned == pc = "returned" /\ op \in WriteOperations

ReportsSuccess == Returned /\ result \notin {False, None}

ReportsFailure == Returned /\ result \in {False, None}

\* An account found at the generated address: the address returned and
\* cached, nothing constructed, nothing sent.
FoundExisting ==
    /\ op = "create_marginfi_account"
    /\ result = ephemeral /\ marginfi_account_key = ephemeral
    /\ built = <<>> /\ tx = NoTx /\ sent = <<>>

\* C8 as stated: at most one send_transaction per call, success reported
\* only after that one call was accepted, failure after a rejection.
C8_SuccessOnlyAfterAccept ==
    /\ Cardinality(SendCalls) <= 1
    /\ Len(sent) = Cardinality(SendCalls)
    /\ ReportsSuccess => sent = <<"accepted">>
    /\ (Returned /\ sent = <<"rejected">>) => ReportsFailure

\* C8: at most one send_transaction per call; failure after a rejection;
\* success reported only after that one call was accepted, or, by
\* create_marginfi_account, with nothing submitted when the backend showed
\* an account at the generated address.
C8_SingleSubmission ==
    /\ Cardinality(SendCalls) <= 1
    /\ Len(sent) = Cardinality(SendCalls)
    /\ ReportsSuccess => (sent = <<"accepted">> \/ FoundExisting)
    /\ (Returned /\ sent = <<"rejected">>) => ReportsFailure

\* A withdrawal the backend rejected.
C8_Witness ==
    /\ op = "withdraw_from_pool" /\ pc = "returned"
    /\ sent = <<"rejected">> /\ result = False

RequiredUnresolved ==
    \/ marginfi_group_key = None
    \/ /\ op \in {"lend_sol", "withdraw_from_pool"}
       /\ (sol_bank_key = None \/ marginfi_account_key = None)

\* C9: a write operation that returns failure with a required entity
\* unresolved has constructed no instruction, and withdraw_from_pool with
\* the group unresolved constructs none.
C9_ResolveBeforeBuild ==
    /\ (ReportsFailure /\ RequiredUnresolved) => built = <<>>
    /\ (op = "withdraw_from_pool" /\ marginfi_group_key = None) => built = <<>>

\* C10: a write operation with a required entity unresolved returns
\* failure and sends nothing, and lend_sol told that the lending account
\* is absent or not owned by the lending program returns failure and
\* sends nothing.
C10_UnresolvedAborts ==
    /\ (Returned /\ RequiredUnresolved) => (ReportsFailure /\ sent = <<>>)
    /\ (op = "lend_sol" /\ verified \in {"absent", "foreign"}) =>
          /\ SendCalls = {}
          /\ Returned => result = False

\* ---------------------------------------------------------------------
\* C18: get_wallet_status always returns a status and never raises,
\* whatever the balance request and the price oracle answer.
C18_StatusNeverRaises ==
    (pc = "returned" /\ op = "get_wallet_status") => ~wallet_status.raised

\* ---------------------------------------------------------------------
\* The balance and the price a status is computed from, read off the
\* answers.
AnsweredBalance ==
    IF env.balance.kind = "value"
    THEN [neg |-> FALSE, digits |-> NatDigits(env.balance.lamports), scale |-> 9]
    ELSE NoAmount

AnsweredPrice == IF env.oracle.kind = "number" THEN env.oracle.usd ELSE NoAmount

AnsweredValue == DecMul(AnsweredBalance, AnsweredPrice)

OverThreshold(value) ==
    DecLess([neg |-> FALSE, digits |-> <<1>>, scale |-> 1], value)

StatusReturned ==
    pc = "returned" /\ op = "get_wallet_status" /\ ~wallet_status.raised

\* C19: a status that get_wallet_status returns lists exactly one token
\* entry, for SOL, when balance times price exceeds 0.1 USD and none
\* otherwise, and its total_value_usd is the sum of the listed values.
C19_ListedAboveThreshold ==
    StatusReturned =>
        /\ Len(wallet_status.tokens) = (IF OverThreshold(AnsweredValue) THEN 1 ELSE 0)
        /\ \A i \in 1..Len(wallet_status.tokens) :
              /\ wallet_status.tokens[i].symbol = "SOL"
              /\ DecEq(wallet_status.tokens[i].value_usd, AnsweredValue)
        /\ DecEq(wallet_status.total_value_usd,
                 IF wallet_status.tokens = <<>> THEN NoAmount ELSE AnsweredValue)

\* 0.01 SOL at 100 USD: one entry, total 1.00.
C19_Witness ==
    /\ StatusReturned
    /\ env.balance = [kind |-> "value", lamports |-> 10000000]
    /\ env.oracle = [kind |-> "number", usd |-> Dec(100)]
    /\ Len(wallet_status.tokens) = 1
    /\ DecEq(wallet_status.total_value_usd, Dec(1))

\* ---------------------------------------------------------------------
\* C20: with WALLET_KEY missing from the environment (unset or empty) the
\* construction of the client fails with a configuration error before any
\* network request, and no client becomes available: no operation follows.
C20_MissingKeyFails ==
    (op = "__init__" /\ env.wallet_key \in {None, <<"">>}) =>
        /\ pc = "failed"
        /\ result = <<"ValueError">>
        /\ rpc_log = <<>>
        /\ cache = <<None, None, None>>
        /\ ~ENABLED Next

C20_Witness ==
    /\ op = "__init__"
    /\ env.wallet_key = None
    /\ pc = "failed"

\* ---------------------------------------------------------------------
\* A direct call of find_marginfi_group has returned.
GroupLookupReturned == pc = "returned" /\ op = "find_marginfi_group"

\* The first candidate the backend reports as owned by the lending
\* program, 0 when there is none.
FirstOwned ==
    LET owned == {i \in 1..Len(known_groups) : env.answers[i] = "owned"}
    IN  IF owned = {} THEN 0
        ELSE CHOOSE i \in owned : \A j \in owned : i <= j

\* get_account_info on the first n candidates, in their listed order.
CandidateQueries(n) ==
    [i \in 1..n |-> <<"get_account_info">> \o known_groups[i]]

\* C15: find_marginfi_group queries the known candidates in their listed
\* order and returns and caches the first one reported as owned by the
\* lending program, querying nothing after it; a candidate whose lookup
\* raises is skipped; the program accounts are enumerated only when no
\* candidate verified.
C15_CandidatesInOrder ==
    GroupLookupReturned =>
        IF FirstOwned # 0
        THEN /\ result = known_groups[FirstOwned]
             /\ marginfi_group_key = known_groups[FirstOwned]
             /\ rpc_log = CandidateQueries(FirstOwned)
        ELSE rpc_log = Append(CandidateQueries(Len(known_groups)),
                              <<"get_program_accounts">> \o MARGINFI_PROGRAM_ID)

\* The lookup of the first candidate raises, the second one verifies.
C15_Witness ==
    /\ GroupLookupReturned
    /\ env.answers[1] = "error"
    /\ env.answers[2] = "owned"
    /\ result = known_groups[2]
    /\ Len(rpc_log) = 2

\* ---------------------------------------------------------------------
\* A step that is a direct call of the named lookup.
LookupStep(name) == pc = "idle" /\ op' = name

\* C16: find_sol_bank and find_marginfi_account each make exactly one
\* request, get_account_info on their pinned address; they return and
\* cache that address if and only if the backend reports the account as
\* present and owned by the lending program, and otherwise return None and
\* leave their cache field as it was; they never enumerate.
C16_PinnedLookups ==
    [][ /\ LookupStep("find_sol_bank") =>
            /\ rpc_log' = << <<"get_account_info">> \o sol_bank_str >>
            /\ IF env'.answer = "owned"
               THEN result' = sol_bank_str /\ sol_bank_key' = sol_bank_str
               ELSE result' = None /\ sol_bank_key' = sol_bank_key
        /\ LookupStep("find_marginfi_account") =>
            /\ rpc_log' = << <<"get_account_info">> \o existing_marginfi_account >>
            /\ IF env'.answer = "owned"
               THEN /\ result' = existing_marginfi_account
                    /\ marginfi_account_key' = existing_marginfi_account
               ELSE /\ result' = None
                    /\ marginfi_account_key' = marginfi_account_key
      ]_vars

\* The bank account exists under another owner: not found.
C16_Witness ==
    /\ pc = "returned"
    /\ op = "find_sol_bank"
    /\ env.answer = "foreign"
    /\ result = None
    /\ sol_bank_key = None

\* ---------------------------------------------------------------------
\* The enumeration answered with an account of group size.
ScanHasGroup(scan) ==
    /\ scan.kind = "list"
    /\ \E i \in 1..Len(scan.accounts) :
          10000 < scan.accounts[i].size /\ scan.accounts[i].size < 15000

NewRequests ==
    IF Len(rpc_log') >= Len(rpc_log) /\ SubSeq(rpc_log', 1, Len(rpc_log)) = rpc_log
    THEN {rpc_log'[i] : i \in (Len(rpc_log) + 1)..Len(rpc_log')}
    ELSE {rpc_log'[i] : i \in 1..Len(rpc_log')}

\* The requests that resolve the group, the bank, the lending account.
GroupQueries ==
    {<<"get_account_info">> \o known_groups[i] : i \in 1..Len(known_groups)}
    \cup {<<"get_program_accounts">> \o MARGINFI_PROGRAM_ID}

BankQueries == {<<"get_account_info">> \o sol_bank_str}

AccountQueries == {<<"get_account_info">> \o existing_marginfi_account}

\* C13: once the group, the bank or the lending account is resolved, no
\* later step of any operation sends a resolution request for it again:
\* the cached address is returned or used.
C13_CachedNotRequeried ==
    [][ /\ marginfi_group_key # None => NewRequests \cap GroupQueries = {}
        /\ sol_bank_key # None => NewRequests \cap BankQueries = {}
        /\ marginfi_account_key # None => NewRequests \cap AccountQueries = {}
      ]_vars

\* ---------------------------------------------------------------------
\* C14: the three cache fields start unresolved, a populated field is
\* never reset to unresolved, and a field takes a new address only in a
\* step that looked that address up successfully (for the lending account
\* also: created it with an accepted transaction).
C14_PopulatedBySuccessfulLookup ==
    [][ /\ pc = "new" => cache = <<None, None, None>>
        /\ marginfi_group_key # None => marginfi_group_key' # None
        /\ sol_bank_key # None => sol_bank_key' # None
        /\ marginfi_account_key # None => marginfi_account_key' # None
        /\ marginfi_group_key' # marginfi_group_key =>
              NewRequests \cap GroupQueries # {}
        /\ sol_bank_key' # sol_bank_key =>
              <<"get_account_info">> \o sol_bank_key' \in NewRequests
        /\ marginfi_account_key' # marginfi_account_key =>
              \/ /\ op' = "create_marginfi_account"
                 /\ sent' = <<"accepted">>
                 /\ marginfi_account_key' = ephemeral
              \/ /\ op' = "lend_sol"
                 /\ verified' = "owned"
              \/ /\ op' \notin {"create_marginfi_account", "lend_sol"}
                 /\ <<"get_account_info">> \o marginfi_account_key' \in NewRequests
      ]_vars

\* ---------------------------------------------------------------------
\* The running or returned call is a deposit or a withdrawal.
Transfers == op \in {"lend_sol", "withdraw_from_pool"}

\* C11: an amount of 0 or below is rejected before any instruction is
\* built, in lend_sol and withdraw_from_pool themselves and on every flow
\* that leads to them: for such an amount no instruction is constructed
\* and no transaction is submitted.
C11_NonPositiveRejected ==
    (Transfers /\ ~DecLess(NoAmount, amount_sol)) => built = <<>> /\ sent = <<>>

\* ---------------------------------------------------------------------
\* The SOL balance of the wallet status the flow was given, and the amount
\* of the position selected in withdrawal_flow.
StatusBalance ==
    LET sol == {i \in 1..Len(wallet_status.tokens) :
                   wallet_status.tokens[i].symbol = "SOL"}
    IN  wallet_status.tokens[CHOOSE i \in sol : \A j \in sol : i <= j].balance

SelectedAmount ==
    IF "amount" \in positions[env.selected].keys
    THEN positions[env.selected].amount
    ELSE NoAmount

LendingFlows == {"lending_flow", "auto_lending_flow", "test_lending_flow"}

\* C12: lending_flow, auto_lending_flow and test_lending_flow call
\* lend_sol only with an amount that is not above the SOL balance of their
\* wallet status, and withdrawal_flow calls withdraw_from_pool only with
\* an amount that is not above the amount of the selected position.
C12_WithinAvailable ==
    /\ (flow \in LendingFlows /\ op = "lend_sol") =>
          /\ \E i \in 1..Len(wallet_status.tokens) :
                wallet_status.tokens[i].symbol = "SOL"
          /\ ~DecLess(StatusBalance, amount_sol)
    /\ (flow = "withdrawal_flow" /\ op = "withdraw_from_pool") =>
          ~DecLess(SelectedAmount, amount_sol)

\* auto_lending_flow lends the whole balance of its wallet status, and the
\* transaction is accepted.
C12_Witness ==
    /\ flow = "auto_lending_flow"
    /\ op = "lend_sol"
    /\ DecEq(amount_sol, StatusBalance)
    /\ sent = <<"accepted">>

\* ---------------------------------------------------------------------
\* The positions in the log of the requests named.
Requests(methods) ==
    {i \in 1..Len(rpc_log) : rpc_log[i][1] \in methods}

\* C21: in create_marginfi_account, lend_sol and withdraw_from_pool the
\* steps come in the order resolve, build, fetch the block reference, sign,
\* submit.  A send_transaction is the last request of its call; the block
\* reference was fetched earlier in the same call, after every lookup and
\* the rent request; the transaction sent is signed over that reference
\* and holds exactly the instructions built; and the call has returned
\* with the answer before anything else happens, so at most one
\* transaction is ever in flight.
C21_StepOrder ==
    op \in WriteOperations =>
        /\ Cardinality(Requests({"send_transaction"})) <= 1
        /\ Len(sent) = Cardinality(Requests({"send_transaction"}))
        /\ \A i \in Requests({"send_transaction"}) :
              /\ i = Len(rpc_log)
              /\ pc = "returned"
              /\ Cardinality(Requests({"get_latest_blockhash"})) = 1
              /\ \A j \in Requests({"get_latest_blockhash"}) :
                    /\ j = i - 1
                    /\ \A k \in Requests({"get_account_info", "get_program_accounts",
                                          "get_minimum_balance_for_rent_exemption"}) :
                          k < j
              /\ tx.recent_blockhash = "blockhash"
              /\ tx.signers # <<>>
              /\ Len(tx.instructions) = Len(built)
              /\ \A n \in 1..Len(built) :
                    \E t \in 1..Len(tx.instructions) : tx.instructions[t] = built[n]

\* A withdrawal that looked the lending account up, asked for the rent,
\* fetched the block reference and was accepted.
C21_Witness ==
    /\ op = "withdraw_from_pool"
    /\ pc = "returned"
    /\ sent = <<"accepted">>
    /\ Requests({"get_account_info"}) # {}
    /\ Requests({"get_minimum_balance_for_rent_exemption"}) # {}
    /\ rpc_log[Len(rpc_log)] = <<"send_transaction">>

\* ---------------------------------------------------------------------
\* The first account of the enumeration whose data length lies in
\* 10,000..15,000, both ends included; 0 when there is none.
FirstInRange(accounts) ==
    LET sized == {i \in 1..Len(accounts) :
                     10000 <= accounts[i].size /\ accounts[i].size <= 15000}
    IN  IF sized = {} THEN 0 ELSE CHOOSE i \in sized : \A j \in sized : i <= j

\* C22: when no candidate verifies and the program's accounts are listed,
\* find_marginfi_group selects the first account, in enumeration order,
\* whose data length lies in 10,000..15,000 bytes, 10,000 and 15,000
\* included, and no account when none does.
C22_InclusiveRange ==
    (/\ GroupLookupReturned
     /\ \A i \in 1..Len(known_groups) : env.answers[i] # "owned"
     /\ env.scan.kind = "list") =>
        IF FirstInRange(env.scan.accounts) = 0
        THEN result = None
        ELSE result = env.scan.accounts[FirstInRange(env.scan.accounts)].pubkey

\* ---------------------------------------------------------------------
\* The step is a send_transaction that the backend rejected.
RejectedStep == Len(sent') > Len(sent) /\ sent'[Len(sent')] = "rejected"

\* A rejected submission is an explicit failure that leaves the three
\* cache fields as they were.
RejectionLeavesCache ==
    RejectedStep =>
        /\ pc' = "returned"
        /\ result' \in {False, None}
        /\ op = "create_marginfi_account" => result' = None
        /\ cache' = cache

\* C23 as stated: a rejected submission returns a failure with the caches
\* unchanged, and create_marginfi_account sets the lending-account cache
\* to the generated address only after send_transaction was accepted.
C23_CachedOnlyAfterAccept ==
    [][ /\ RejectionLeavesCache
        /\ (op' = "create_marginfi_account"
            /\ marginfi_account_key' # marginfi_account_key) =>
               /\ sent' = <<"accepted">>
               /\ marginfi_account_key' = ephemeral
      ]_vars

\* C23: a rejected submission returns a failure (None from
\* create_marginfi_account) with the three cache fields unchanged;
\* create_marginfi_account sets the lending-account cache to the generated
\* address after send_transaction was accepted, or, with nothing built and
\* nothing submitted, when the backend shows an account at that address.
C23_RejectionLeavesState ==
    [][ /\ RejectionLeavesCache
        /\ (op' = "create_marginfi_account"
            /\ marginfi_account_key' # marginfi_account_key) =>
               \/ /\ sent = <<>>
                  /\ sent' = <<"accepted">>
                  /\ marginfi_account_key' = ephemeral
                  /\ result' = ephemeral
               \/ /\ sent' = <<>>
                  /\ built' = <<>>
                  /\ marginfi_account_key' = ephemeral'
                  /\ result' = ephemeral'
      ]_vars

\* create_marginfi_account rejected: None, and no lending account cached.
C23_Witness ==
    /\ op = "create_marginfi_account"
    /\ pc = "returned"
    /\ sent = <<"rejected">>
    /\ result = None
    /\ marginfi_account_key = None
    /\ marginfi_group_key # None

\* ---------------------------------------------------------------------
\* The lending accounts named by the deposit and the withdraw
\* instructions constructed so far in the state after the step.
DepositTargets ==
    {built'[i].accounts[2].pubkey :
        i \in {n \in 1..Len(built') : IsLending(built'[n])}}

WithdrawSources ==
    {built'[i].accounts[1].pubkey :
        i \in {n \in 1..Len(built') : IsLending(built'[n])}}

C25_DepositNeedsListedSol ==
    /\ (flow \in LendingFlows /\ op = "lend_sol") =>
          \E i \in 1..Len(wallet_status.tokens) :
              /\ wallet_status.tokens[i].symbol = "SOL"
              /\ OverThreshold(DecMul(wallet_status.tokens[i].balance,
                                      wallet_status.tokens[i].price_usd))
    /\ (flow = "test_lending_flow" /\ env.oracle.kind \notin {"number", "string"}) =>
          /\ wallet_status.tokens = <<>>
          /\ op = "test_lending_flow"
          /\ pc = "returned"
          /\ result = False
          /\ built = <<>>
          /\ sent = <<>>

\* 0.02 SOL in the wallet, 0.02 SOL asked for, and the price request timed
\* out: test_lending_flow returned False.
C25_Witness ==
    /\ flow = "test_lending_flow"
    /\ env.oracle.kind = "timeout"
    /\ env.balance = [kind |-> "value", lamports |-> 20000000]
    /\ amount_sol = [neg |-> FALSE, digits |-> <<2>>, scale |-> 2]
    /\ result = False
    /\ sent = <<>>

\* ---------------------------------------------------------------------
\* The size of an amount, and a number of lamports as an amount of SOL.
Magnitude(amount) == [amount EXCEPT !.neg = FALSE]

InSol(lamports) == [neg |-> FALSE, digits |-> lamports.digits, scale |-> 9]

OneLamport == [neg |-> FALSE, digits |-> <<1>>, scale |-> 9]

\* The amounts in the payloads of the lending instructions of the
\* transaction.
PayloadAmounts ==
    {Decoded(tx.instructions[i].data, 9, 16) :
        i \in {n \in 1..Len(tx.instructions) : IsLending(tx.instructions[n])}}

\* C26: the amount in the payload of a deposit or withdraw instruction
\* submitted is the converted amount and lies in 0..2^64-1; with a
\* converted amount below 0 or of 2^64 and above, lend_sol and
\* withdraw_from_pool return False and send_transaction is not called; and
\* the conversion truncates toward zero, so an amount above 0 and below
\* one lamport gives a payload amount of 0.
C26_PayloadAmountInRange ==
    Transfers =>
        /\ sent # <<>> =>
              /\ InU64(amount_lamports)
              /\ PayloadAmounts = {amount_lamports}
        /\ ~InU64(amount_lamports) =>
              /\ sent = <<>>
              /\ pc = "returned" => result = False
        /\ amount_lamports.neg => amount_sol.neg
        /\ ~DecLess(Magnitude(amount_sol), InSol(amount_lamports))
        /\ DecLess(Magnitude(amount_sol),
                   DecAdd(InSol(amount_lamports), OneLamport))

\* lending_flow took 0.0000000005 SOL for an amount above 0, and the
\* deposit accepted carries the amount 0.
C26_Witness ==
    /\ flow = "lending_flow"
    /\ op = "lend_sol"
    /\ amount_sol = [neg |-> FALSE, digits |-> <<5>>, scale |-> 10]
    /\ env.input.value = amount_sol
    /\ DecLess(NoAmount, amount_sol)
    /\ sent = <<"accepted">>
    /\ PayloadAmounts = {PyInt(0)}

\* ---------------------------------------------------------------------
\* The lending instructions constructed.
LendingBuilt == {built[i] : i \in {n \in 1..Len(built) : IsLending(built[n])}}

\* C27: the withdraw instruction withdraw_from_pool builds is the same for
\* every pool_id: its accounts are the cached lending account, group and
\* bank, the temporary account and the vault derived from the seed
\* "liquidity_vault" and the cached bank, and its payload is the withdraw
\* discriminator and the amount; the deposit instruction of lend_sol names
\* the vault derived in the same way from the cached bank.
C27_WithdrawIgnoresPoolId ==
    /\ op = "withdraw_from_pool" =>
          \A ins \in LendingBuilt :
              /\ [i \in 1..Len(ins.accounts) |-> ins.accounts[i].pubkey] =
                    << marginfi_account_key, marginfi_group_key, ephemeral,
                       sol_bank_key,
                       <<"pda", "liquidity_vault">> \o sol_bank_key
                           \o MARGINFI_PROGRAM_ID,
                       TOKEN_PROGRAM_ID, WalletKey >>
              /\ ins.data = WithdrawTag \o to_bytes(amount_lamports, 8).value
    /\ op = "lend_sol" =>
          \A ins \in LendingBuilt :
              /\ ins.accounts[4].pubkey = sol_bank_key
              /\ ins.accounts[6].pubkey =
                    <<"pda", "liquidity_vault">> \o sol_bank_key
                        \o MARGINFI_PROGRAM_ID

\* A withdrawal called with the empty pool_id, built on the cached bank
\* and accepted.
C27_Witness ==
    /\ op = "withdraw_from_pool"
    /\ pool_id = ""
    /\ sol_bank_key # <<pool_id>>
    /\ sent = <<"accepted">>
    /\ \E ins \in LendingBuilt : ins.accounts[4].pubkey = sol_bank_key

====
